---- MODULE Spec2Model ----
(***************************************************************************)
(* Model of src/target/numicro_m032.c: the Nuvoton M032 flash driver of    *)
(* Black Magic Debug.  Every target register access is one step.  The      *)
(* target hardware is an external collaborator: a read of a register       *)
(* returns any value of a small set of representative values.              *)
(*                                                                         *)
(* A uint32_t is the pair <<hi, lo>> of its 16-bit halves (TLC's integers   *)
(* are 32-bit signed, so 0xABCDABCD or a wrapped size do not fit in one).  *)
(***************************************************************************)
EXTENDS Integers, Sequences, FiniteSets, TLC

---------------------------------------------------------------------------
(* uint32_t arithmetic, modulo 2^32 *)

W(hi, lo) == <<hi, lo>>

U32(n) == <<n \div 65536, n % 65536>>

Nat32(a) == a[1] * 65536 + a[2]

Add32(a, b) ==
    LET s == a[2] + b[2]
    IN  <<(a[1] + b[1] + (s \div 65536)) % 65536, s % 65536>>

\* as Sub32, stopping at zero instead of wrapping around
Sub32_saturating(a, b) ==
    IF a[1] < b[1] \/ (a[1] = b[1] /\ a[2] < b[2])
    THEN <<0, 0>>
    ELSE LET d == a[2] - b[2]
         IN  <<(a[1] - b[1] + (d \div 65536)) % 65536, d % 65536>>

Sub32(a, b) ==
    LET d == a[2] - b[2]
    IN  <<(a[1] - b[1] + (d \div 65536)) % 65536, d % 65536>>

RECURSIVE OrHalf(_, _, _)
OrHalf(x, y, n) ==
    IF n = 0 THEN 0
    ELSE (IF x % 2 = 1 \/ y % 2 = 1 THEN 1 ELSE 0)
         + 2 * OrHalf(x \div 2, y \div 2, n - 1)

RECURSIVE AndHalf(_, _, _)
AndHalf(x, y, n) ==
    IF n = 0 THEN 0
    ELSE (IF x % 2 = 1 /\ y % 2 = 1 THEN 1 ELSE 0)
         + 2 * AndHalf(x \div 2, y \div 2, n - 1)

Or32(a, b) == <<OrHalf(a[1], b[1], 16), OrHalf(a[2], b[2], 16)>>

And32(a, b) == <<AndHalf(a[1], b[1], 16), AndHalf(a[2], b[2], 16)>>

Zero32 == W(0, 0)

---------------------------------------------------------------------------
(* Register locations and bits (the #defines of the source) *)

NUMICRO_APROM_BASE == W(\h0000, \h0000)
NUMICRO_LDROM_BASE == W(\h0010, \h0000)
NUMICRO_SPROM_BASE == W(\h0020, \h0000)
NUMICRO_CONFIG_BASE == W(\h0030, \h0000)
NUMICRO_CONFIG0 == NUMICRO_CONFIG_BASE
NUMICRO_CONFIG1 == Add32(NUMICRO_CONFIG_BASE, U32(4))
NUMICRO_CONFIG2 == Add32(NUMICRO_CONFIG_BASE, U32(8))

NUMICRO_SYSCLK_AHBCLK == W(\h4000, \h0204)
NUMICRO_FLASH_ISPCON == W(\h4000, \hC000)
NUMICRO_FLASH_ISPADR == W(\h4000, \hC004)
NUMICRO_FLASH_ISPDAT == W(\h4000, \hC008)
NUMICRO_FLASH_ISPCMD == W(\h4000, \hC00C)
NUMICRO_FLASH_ISPTRG == W(\h4000, \hC010)
NUMICRO_SYS_REGLCTL == W(\h4000, \h0100)

AHBCLK_ISP_EN == U32(4)
AHBCLK_SRAM_EN == U32(16)
AHBCLK_TICK_EN == U32(32)

ISPCON_ISPEN == U32(1)
ISPCON_BS_MASK == U32(2)
ISPCON_SPUEN == U32(4)
ISPCON_APUEN == U32(8)
ISPCON_CFGUEN == U32(16)
ISPCON_LDUEN == U32(32)
ISPCON_ISPFF == U32(64)

FMC_ISPCMD_READ == U32(\h00)
FMC_ISPCMD_WRITE == U32(\h21)
FMC_ISPCMD_ERASE == U32(\h22)
FMC_ISPCMD_CHIPERASE == U32(\h26)
FMC_ISPCMD_READ_CID == U32(\h0B)
FMC_ISPCMD_READ_UID == U32(\h04)
FMC_ISPCMD_VECMAP == U32(\h2E)

CONFIG0_LOCK_MASK == U32(2)

ISPTRG_ISPGO == U32(1)

REG_KEY1 == U32(\h59)
REG_KEY2 == U32(\h16)
REG_KEY3 == U32(\h88)

NUMICRO_APROM_SIZE == U32(\h10000)
NUMICRO_LDROM_SIZE == U32(\h800)
NUMICRO_SPROM_SIZE == U32(\h200)

NUMICRO_PAGESIZE == 512

\* the polling budget of nu_m032_fmc_cmd
FMC_TIMEOUT == 100

\* the value nu_m032_fmc_cmd and nu_m032_read_configs preset a result with
SENTINEL == W(\hABCD, \hABCD)

---------------------------------------------------------------------------
(* Bounds of the model, and the values the environment supplies *)

\* flash_erase is called with 0 .. MaxPages whole pages
MaxPages == 3

\* flash_write is called with 0 .. MaxWords whole words
MaxWords == 2

\* commands after which a flash_erase or flash_write loop is no longer followed
MaxIssue == 5

Opcodes ==
    {FMC_ISPCMD_READ, FMC_ISPCMD_WRITE, FMC_ISPCMD_ERASE, FMC_ISPCMD_CHIPERASE,
     FMC_ISPCMD_READ_CID, FMC_ISPCMD_READ_UID, FMC_ISPCMD_VECMAP}

\* what a read of the ISP trigger register may return
TrgValues == {U32(0), U32(1)}

\* what a read of the ISP control register may return
IspconValues ==
    {U32(0),
     ISPCON_BS_MASK,
     ISPCON_ISPFF,
     Or32(ISPCON_ISPEN, ISPCON_APUEN),
     Or32(Or32(ISPCON_ISPEN, ISPCON_BS_MASK),
          Or32(Or32(ISPCON_SPUEN, ISPCON_LDUEN), ISPCON_ISPFF))}

\* what a read of the ISP data register may return
DataValues == {U32(\h00), U32(\h02), U32(\h80), W(\hFFFF, \hFFFF)}

\* what a read of the clock-gate register may return
AhbclkValues == {U32(0), Or32(AHBCLK_SRAM_EN, AHBCLK_TICK_EN)}

\* what a read of the lock-control register may return
RegLctlValues == {U32(0), U32(1)}

\* what an uninitialized uint32_t local may hold
Garbage == {U32(0), W(\hDEAD, \hBEEF)}

\* the words a flash_write source buffer is made of
WordValues == {W(\h1234, \h5678), W(\hFFFF, \hFFFF)}

\* the addresses flash_erase and flash_write are called with
FlashAddrs ==
    {NUMICRO_APROM_BASE, W(\h0000, \hFE00), NUMICRO_LDROM_BASE, NUMICRO_CONFIG_BASE}

\* the lengths flash_erase is called with: whole pages, and one word
EraseLens == {U32(n * NUMICRO_PAGESIZE) : n \in 0..MaxPages} \cup {U32(4)}

\* the lengths flash_write is called with: whole words, and a word and a half
WriteLens == {U32(4 * n) : n \in 0..MaxWords} \cup {U32(6)}

\* what the chip-ID register reads as
ChipIdValues == {W(\h0113, \h2D00), W(\h0113, \h2D01), U32(0)}

\* t->idcode before the probe (a 16-bit field, as stored_idcode is)
IdCodes == {0, \h0440, \hFFFF}

\* the arguments nu_m032_fmc_cmd is run alone with
CmdAddrs == {U32(0), NUMICRO_CONFIG0}

\* the region bits nu_m032_init_isp is run alone with
ExtraConfs == {U32(0), ISPCON_APUEN, Or32(ISPCON_APUEN, ISPCON_LDUEN)}

---------------------------------------------------------------------------
VARIABLES
    ctl,         \* call stack: frames <<function, label>>, the running one first
    ret,         \* the value the last function returned (true = 1, false = 0)
    a_addr,      \* flash_erase/flash_write: addr or dest
    a_len,       \* flash_erase/flash_write: len
    a_src,       \* flash_write: the source buffer, a sequence of words
    uAddr,       \* the loops' address
    szSize,      \* the loops' remaining length (size_t, 32 bits)
    pSrc,        \* flash_write: index of the next source word
    uRegSample,  \* the callers' uRegSample
    uRegValue,   \* nu_m032_read_configs: uRegValue0, uRegValue1, uRegValue2
    uExtraconf,  \* nu_m032_init_isp: its argument
    reg_stat,    \* nu_m032_init_isp: its local
    cmd,         \* nu_m032_fmc_cmd: argument
    addr,        \* nu_m032_fmc_cmd: argument
    wdata,       \* nu_m032_fmc_cmd: argument
    rdata,       \* nu_m032_fmc_cmd: the variable its rdata argument points to
    timeout,     \* nu_m032_fmc_cmd: local
    status,      \* nu_m032_fmc_cmd: local
    log,         \* the register accesses of the latest call of logOf, in order;
                 \* successive reads of the trigger register are kept as the
                 \* last one
    logOf,       \* the function log is about: the entry point, or the latest
                 \* nu_m032_init_isp or nu_m032_fmc_cmd it called
    trgReads,    \* reads of the trigger register in the polling loop, until the
                 \* first access after the loop
    delays,      \* platform_delay(1) calls in the polling loop, likewise
    nCmds,       \* writes of the trigger register since the entry point was invoked
    nInits,      \* calls of nu_m032_init_isp since the entry point was invoked
    progress,    \* how much of the sequence key1, key2, key3, clock gate with the
                 \* ISP clock bit, ISP control with the enable bit has been written
                 \* since the entry point was invoked
    target,      \* nu_m032_probe: what *t holds of the target (cpuid matching
                 \* Cortex-M0 or not, idcode, driver, RAM, flash regions, commands)
    uChipID,     \* nu_m032_probe: local
    stored_idcode, \* nu_m032_probe: local
    out,         \* what the entry point has reported with DEBUG_INFO, in order
    tmoFirst     \* the first command issued since the entry point was invoked
                 \* has exhausted its polling budget

ctlv == <<ctl, ret>>
argv == <<a_addr, a_len, a_src>>
loopv == <<uAddr, szSize, pSrc>>
resv == <<uRegSample, uRegValue>>
initv == <<uExtraconf, reg_stat>>
fmcv == <<cmd, addr, wdata, rdata, timeout, status>>
accv == <<log, logOf, nCmds, progress>>
cntv == <<trgReads, delays, nInits>>
probev == <<target, uChipID, stored_idcode>>
monv == <<out, tmoFirst>>
vars == <<ctlv, argv, loopv, resv, initv, fmcv, accv, cntv, probev, monv>>

---------------------------------------------------------------------------
(* Control: calls and returns *)

Running(f, l) == ctl # <<>> /\ Head(ctl) = <<f, l>>

Top == IF ctl = <<>> THEN "idle" ELSE ctl[Len(ctl)][1]

Goto(l) == ctl' = <<<<Head(ctl)[1], l>>>> \o Tail(ctl)

\* call g; the caller resumes at label l
CallFrom(l, g) == ctl' = <<<<g, "entry">>, <<Head(ctl)[1], l>>>> \o Tail(ctl)

\* an entry point that returns stays at "done" until Finish
Return ==
    ctl' = IF Len(ctl) = 1 THEN <<<<Head(ctl)[1], "done">>>> ELSE Tail(ctl)

---------------------------------------------------------------------------
(* Register access, and what is recorded of it *)

IsTrgRead(e) == e.k = "R" /\ e.reg = NUMICRO_FLASH_ISPTRG

NextProgress(p, reg, val) ==
    IF \/ p = 0 /\ reg = NUMICRO_SYS_REGLCTL /\ val = REG_KEY1
       \/ p = 1 /\ reg = NUMICRO_SYS_REGLCTL /\ val = REG_KEY2
       \/ p = 2 /\ reg = NUMICRO_SYS_REGLCTL /\ val = REG_KEY3
       \/ p = 3 /\ reg = NUMICRO_SYSCLK_AHBCLK /\ And32(val, AHBCLK_ISP_EN) # Zero32
       \/ p = 4 /\ reg = NUMICRO_FLASH_ISPCON /\ And32(val, ISPCON_ISPEN) # Zero32
    THEN p + 1
    ELSE p

target_mem_write32(reg, val) ==
    /\ log' = Append(log, [k |-> "W", reg |-> reg, val |-> val])
    /\ nCmds' = IF reg = NUMICRO_FLASH_ISPTRG THEN nCmds + 1 ELSE nCmds
    /\ progress' = NextProgress(progress, reg, val)
    /\ UNCHANGED logOf

target_mem_read32(reg, val) ==
    /\ log' = IF log # <<>> /\ IsTrgRead(log[Len(log)]) /\ reg = NUMICRO_FLASH_ISPTRG
              THEN [log EXCEPT ![Len(log)] = [k |-> "R", reg |-> reg, val |-> val]]
              ELSE Append(log, [k |-> "R", reg |-> reg, val |-> val])
    /\ UNCHANGED <<logOf, nCmds, progress>>

NoAccess == UNCHANGED accv

---------------------------------------------------------------------------
(* nu_m032_reg_unlock *)

reg_unlock_key1 ==
    /\ Running("reg_unlock", "entry")
    /\ target_mem_write32(NUMICRO_SYS_REGLCTL, REG_KEY1)
    /\ Goto("key2")
    /\ UNCHANGED <<ret, argv, loopv, resv, initv, fmcv, cntv>>
    /\ UNCHANGED <<probev, monv>>

reg_unlock_key2 ==
    /\ Running("reg_unlock", "key2")
    /\ target_mem_write32(NUMICRO_SYS_REGLCTL, REG_KEY2)
    /\ Goto("key3")
    /\ UNCHANGED <<ret, argv, loopv, resv, initv, fmcv, cntv>>
    /\ UNCHANGED <<probev, monv>>

\* as reg_unlock_key3, the second key written again
reg_unlock_key3_repeat ==
    /\ Running("reg_unlock", "key3")
    /\ target_mem_write32(NUMICRO_SYS_REGLCTL, REG_KEY2)
    /\ Goto("read")
    /\ UNCHANGED <<ret, argv, loopv, resv, initv, fmcv, cntv>>
    /\ UNCHANGED <<probev, monv>>

reg_unlock_key3 ==
    /\ Running("reg_unlock", "key3")
    /\ target_mem_write32(NUMICRO_SYS_REGLCTL, REG_KEY3)
    /\ Goto("read")
    /\ UNCHANGED <<ret, argv, loopv, resv, initv, fmcv, cntv>>
    /\ UNCHANGED <<probev, monv>>

\* as reg_unlock_read, returning false when the register reads 0
reg_unlock_read_checked ==
    /\ Running("reg_unlock", "read")
    /\ \E uRead \in RegLctlValues :
          /\ target_mem_read32(NUMICRO_SYS_REGLCTL, uRead)
          /\ ret' = IF uRead = U32(0) THEN 0 ELSE 1
    /\ Return
    /\ UNCHANGED <<argv, loopv, resv, initv, fmcv, cntv>>
    /\ UNCHANGED <<probev, monv>>

\* uRead only selects the diagnostic text; the function returns true
reg_unlock_read ==
    /\ Running("reg_unlock", "read")
    /\ \E uRead \in RegLctlValues : target_mem_read32(NUMICRO_SYS_REGLCTL, uRead)
    /\ ret' = 1
    /\ Return
    /\ UNCHANGED <<argv, loopv, resv, initv, fmcv, cntv>>
    /\ UNCHANGED <<probev, monv>>

nu_m032_reg_unlock ==
    \/ reg_unlock_key1
    \/ reg_unlock_key2
    \/ reg_unlock_key3
    \/ reg_unlock_read

---------------------------------------------------------------------------
(* nu_m032_init_isp *)

CallInit(l, bits) ==
    /\ CallFrom(l, "init_isp")
    /\ uExtraconf' = bits
    /\ reg_stat' = Zero32
    /\ log' = <<>>
    /\ logOf' = "init_isp"
    /\ nInits' = nInits + 1
    /\ UNCHANGED <<nCmds, progress, trgReads, delays>>

\* the function returns: reg_stat is gone (uExtraconf keeps the argument of
\* the latest call until the next one)
InitLocalsEnd == reg_stat' = Zero32 /\ UNCHANGED uExtraconf

init_isp_unlock ==
    /\ Running("init_isp", "entry")
    /\ CallFrom("chk", "reg_unlock")
    /\ NoAccess
    /\ UNCHANGED <<ret, argv, loopv, resv, initv, fmcv, cntv>>
    /\ UNCHANGED <<probev, monv>>

init_isp_chk ==
    /\ Running("init_isp", "chk")
    /\ IF ret # 1
       THEN ret' = -1 /\ Return /\ InitLocalsEnd
       ELSE ret' = ret /\ Goto("rd_ahbclk") /\ UNCHANGED initv
    /\ NoAccess
    /\ UNCHANGED <<argv, loopv, resv, fmcv, cntv>>
    /\ UNCHANGED <<probev, monv>>

init_isp_rd_ahbclk ==
    /\ Running("init_isp", "rd_ahbclk")
    /\ \E v \in AhbclkValues :
          /\ target_mem_read32(NUMICRO_SYSCLK_AHBCLK, v)
          /\ reg_stat' = v
    /\ Goto("wr_ahbclk")
    /\ UNCHANGED <<ret, argv, loopv, resv, uExtraconf, fmcv, cntv>>
    /\ UNCHANGED <<probev, monv>>

\* as AhbclkWord, the ISP clock bit left as read
AhbclkWord_as_read(read) == read

AhbclkWord(read) == Or32(read, AHBCLK_ISP_EN)

init_isp_wr_ahbclk ==
    /\ Running("init_isp", "wr_ahbclk")
    /\ reg_stat' = AhbclkWord(reg_stat)
    /\ target_mem_write32(NUMICRO_SYSCLK_AHBCLK, reg_stat')
    /\ Goto("rd_ispcon")
    /\ UNCHANGED <<ret, argv, loopv, resv, uExtraconf, fmcv, cntv>>
    /\ UNCHANGED <<probev, monv>>

init_isp_rd_ispcon ==
    /\ Running("init_isp", "rd_ispcon")
    /\ \E v \in IspconValues :
          /\ target_mem_read32(NUMICRO_FLASH_ISPCON, v)
          /\ reg_stat' = v
    /\ Goto("wr_ispcon")
    /\ UNCHANGED <<ret, argv, loopv, resv, uExtraconf, fmcv, cntv>>
    /\ UNCHANGED <<probev, monv>>

\* as IspconWord, the value read dropped
IspconWord_fresh(read, extra) == Or32(Or32(ISPCON_ISPFF, ISPCON_ISPEN), extra)

IspconWord(read, extra) == Or32(read, Or32(Or32(ISPCON_ISPFF, ISPCON_ISPEN), extra))

init_isp_wr_ispcon ==
    /\ Running("init_isp", "wr_ispcon")
    /\ target_mem_write32(NUMICRO_FLASH_ISPCON, IspconWord(reg_stat, uExtraconf))
    /\ ret' = 0
    /\ Return
    /\ InitLocalsEnd
    /\ UNCHANGED <<argv, loopv, resv, fmcv, cntv>>
    /\ UNCHANGED <<probev, monv>>

nu_m032_init_isp ==
    \/ init_isp_unlock
    \/ init_isp_chk
    \/ init_isp_rd_ahbclk
    \/ init_isp_wr_ahbclk
    \/ init_isp_rd_ispcon
    \/ init_isp_wr_ispcon

---------------------------------------------------------------------------
(* nu_m032_fmc_cmd *)

\* r names the variable rdata points to: 0 is uRegSample, i > 0 is uRegValue[i]
CallFmc(l, c, a, w, r) ==
    /\ CallFrom(l, "fmc_cmd")
    /\ cmd' = c
    /\ addr' = a
    /\ wdata' = w
    /\ rdata' = r
    /\ timeout' = 0
    /\ status' = Zero32
    /\ log' = <<>>
    /\ logOf' = "fmc_cmd"
    /\ trgReads' = 0
    /\ delays' = 0
    /\ UNCHANGED <<nCmds, progress, nInits>>

\* as fmc_cmd_wr_cmd, the opcode going to the address register
fmc_cmd_wr_cmd_to_adr ==
    /\ Running("fmc_cmd", "entry")
    /\ target_mem_write32(NUMICRO_FLASH_ISPADR, cmd)
    /\ Goto("wr_adr")
    /\ UNCHANGED <<ret, argv, loopv, resv, initv, fmcv, cntv>>
    /\ UNCHANGED <<probev, monv>>

fmc_cmd_wr_cmd ==
    /\ Running("fmc_cmd", "entry")
    /\ target_mem_write32(NUMICRO_FLASH_ISPCMD, cmd)
    /\ Goto("wr_adr")
    /\ UNCHANGED <<ret, argv, loopv, resv, initv, fmcv, cntv>>
    /\ UNCHANGED <<probev, monv>>

\* as HasPayload, for every opcode
HasPayload_always(c) == c = c

HasPayload(c) == c = FMC_ISPCMD_WRITE

fmc_cmd_wr_adr ==
    /\ Running("fmc_cmd", "wr_adr")
    /\ target_mem_write32(NUMICRO_FLASH_ISPADR, addr)
    /\ Goto(IF HasPayload(cmd) THEN "wr_dat" ELSE "wr_trg")
    /\ UNCHANGED <<ret, argv, loopv, resv, initv, fmcv, cntv>>
    /\ UNCHANGED <<probev, monv>>

fmc_cmd_wr_dat ==
    /\ Running("fmc_cmd", "wr_dat")
    /\ target_mem_write32(NUMICRO_FLASH_ISPDAT, wdata)
    /\ Goto("wr_trg")
    /\ UNCHANGED <<ret, argv, loopv, resv, initv, fmcv, cntv>>
    /\ UNCHANGED <<probev, monv>>

fmc_cmd_wr_trg ==
    /\ Running("fmc_cmd", "wr_trg")
    /\ target_mem_write32(NUMICRO_FLASH_ISPTRG, ISPTRG_ISPGO)
    /\ timeout' = FMC_TIMEOUT
    /\ Goto("poll")
    /\ UNCHANGED <<ret, argv, loopv, resv, initv, cmd, addr, wdata, rdata, status, cntv>>
    /\ UNCHANGED <<probev, monv>>

\* the function returns: timeout and status are gone (cmd, addr, wdata and
\* rdata keep the arguments of the latest call until the next one)
FmcLocalsEnd ==
    /\ timeout' = 0
    /\ status' = Zero32
    /\ UNCHANGED <<cmd, addr, wdata, rdata>>

GoClear(v) == And32(v, ISPTRG_ISPGO) = Zero32

\* as Exhausted, timeout taken as a signed number
Exhausted_signed(t) == t < 0

\* timeout-- <= 0 on an unsigned timeout: it is 0
Exhausted(t) == t = 0

\* as fmc_cmd_poll, an exhausted budget leaving the loop as a clear go bit does
fmc_cmd_poll_break ==
    /\ Running("fmc_cmd", "poll")
    /\ trgReads' = trgReads + 1
    /\ \E v \in TrgValues :
          /\ target_mem_read32(NUMICRO_FLASH_ISPTRG, v)
          /\ IF GoClear(v)
             THEN /\ Goto("rd_con")
                  /\ status' = v
                  /\ UNCHANGED <<cmd, addr, wdata, rdata, timeout, delays, tmoFirst>>
             ELSE IF Exhausted(timeout)
                  THEN /\ Goto("rd_con")
                       /\ status' = v
                       /\ tmoFirst' = (tmoFirst \/ nCmds = 1)
                       /\ UNCHANGED <<cmd, addr, wdata, rdata, timeout, delays>>
                  ELSE /\ timeout' = timeout - 1
                       /\ delays' = delays + 1
                       /\ status' = v
                       /\ Goto("poll")
                       /\ UNCHANGED <<cmd, addr, wdata, rdata, tmoFirst>>
    /\ UNCHANGED <<ret, argv, loopv, resv, initv, nInits>>
    /\ UNCHANGED <<probev, out>>

\* one turn of the for (;;) loop: read the trigger register; leave the loop
\* when the go bit is clear; return when the budget is exhausted; else
\* platform_delay(1) and go round again
fmc_cmd_poll ==
    /\ Running("fmc_cmd", "poll")
    /\ trgReads' = trgReads + 1
    /\ \E v \in TrgValues :
          /\ target_mem_read32(NUMICRO_FLASH_ISPTRG, v)
          /\ IF GoClear(v)
             THEN /\ Goto("rd_con")
                  /\ status' = v
                  /\ UNCHANGED <<cmd, addr, wdata, rdata, timeout, delays, tmoFirst>>
             ELSE IF Exhausted(timeout)
                  THEN /\ Return
                       /\ FmcLocalsEnd
                       /\ tmoFirst' = (tmoFirst \/ nCmds = 1)
                       /\ UNCHANGED delays
                  ELSE /\ timeout' = timeout - 1
                       /\ delays' = delays + 1
                       /\ status' = v
                       /\ Goto("poll")
                       /\ UNCHANGED <<cmd, addr, wdata, rdata, tmoFirst>>
    /\ UNCHANGED <<ret, argv, loopv, resv, initv, nInits>>
    /\ UNCHANGED <<probev, out>>

\* as FlagFail, testing the enable bit
FlagFail_enable(v) == And32(v, ISPCON_ISPEN) # Zero32

FlagFail(v) == And32(v, ISPCON_ISPFF) # Zero32

FetchesResult(c) == c = FMC_ISPCMD_READ

\* the loop is over: timeout is not read again, and the counts of the loop end
fmc_cmd_rd_con ==
    /\ Running("fmc_cmd", "rd_con")
    /\ trgReads' = 0
    /\ delays' = 0
    /\ \E v \in IspconValues :
          /\ target_mem_read32(NUMICRO_FLASH_ISPCON, v)
          /\ IF FlagFail(v)
             THEN /\ Goto("wr_con")
                  /\ status' = v
                  /\ timeout' = 0
                  /\ UNCHANGED <<cmd, addr, wdata, rdata>>
             ELSE IF FetchesResult(cmd)
                  THEN /\ Goto("rd_dat")
                       /\ status' = v
                       /\ timeout' = 0
                       /\ UNCHANGED <<cmd, addr, wdata, rdata>>
                  ELSE /\ Return
                       /\ FmcLocalsEnd
    /\ UNCHANGED <<ret, argv, loopv, resv, initv, nInits>>
    /\ UNCHANGED <<probev, monv>>

fmc_cmd_wr_con ==
    /\ Running("fmc_cmd", "wr_con")
    /\ target_mem_write32(NUMICRO_FLASH_ISPCON, status)
    /\ IF FetchesResult(cmd)
       THEN Goto("rd_dat") /\ UNCHANGED fmcv
       ELSE Return /\ FmcLocalsEnd
    /\ UNCHANGED <<ret, argv, loopv, resv, initv, cntv>>
    /\ UNCHANGED <<probev, monv>>

\* *rdata = 0xABCDABCD; *rdata = target_mem_read32(NUMICRO_FLASH_ISPDAT)
fmc_cmd_rd_dat ==
    /\ Running("fmc_cmd", "rd_dat")
    /\ \E v \in DataValues :
          /\ target_mem_read32(NUMICRO_FLASH_ISPDAT, v)
          /\ IF rdata = 0
             THEN uRegSample' = v /\ UNCHANGED uRegValue
             ELSE uRegValue' = [uRegValue EXCEPT ![rdata] = v] /\ UNCHANGED uRegSample
    /\ Return
    /\ FmcLocalsEnd
    /\ UNCHANGED <<ret, argv, loopv, initv, cntv>>
    /\ UNCHANGED <<probev, monv>>

nu_m032_fmc_cmd ==
    \/ fmc_cmd_wr_cmd
    \/ fmc_cmd_wr_adr
    \/ fmc_cmd_wr_dat
    \/ fmc_cmd_wr_trg
    \/ fmc_cmd_poll
    \/ fmc_cmd_rd_con
    \/ fmc_cmd_wr_con
    \/ fmc_cmd_rd_dat

---------------------------------------------------------------------------
(* nu_m032_cmd_erase_aprom, nu_m032_cmd_erase_ldrom, nu_m032_cmd_erase_sprom:
   the same body with three different region bits, bases and sizes *)

erase_region_init(f, bits) ==
    /\ Running(f, "entry")
    /\ uRegSample' = Zero32
    /\ CallInit("chk", bits)
    /\ UNCHANGED <<ret, argv, loopv, uRegValue, fmcv>>
    /\ UNCHANGED <<probev, monv>>

erase_region_chk(f, base, size) ==
    /\ Running(f, "chk")
    /\ IF ret # 0
       THEN ret' = 0 /\ Return /\ UNCHANGED loopv
       ELSE /\ ret' = ret
            /\ uAddr' = base
            /\ szSize' = size
            /\ UNCHANGED pSrc
            /\ Goto("loop")
    /\ NoAccess
    /\ UNCHANGED <<argv, resv, initv, fmcv, cntv>>
    /\ UNCHANGED <<probev, monv>>

erase_region_loop(f) ==
    /\ Running(f, "loop")
    /\ IF szSize # Zero32
       THEN /\ CallFmc("step", FMC_ISPCMD_ERASE, uAddr, Zero32, 0)
            /\ UNCHANGED ret
       ELSE /\ ret' = 1
            /\ Return
            /\ NoAccess
            /\ UNCHANGED <<fmcv, cntv>>
    /\ UNCHANGED <<argv, loopv, resv, initv>>
    /\ UNCHANGED <<probev, monv>>

\* as erase_region_step, giving up with false when the command has ended
\* with the go bit still set
erase_region_step_abort(f) ==
    /\ Running(f, "step")
    /\ IF log # <<>> /\ IsTrgRead(log[Len(log)])
       THEN /\ ret' = 0
            /\ Return
            /\ UNCHANGED <<uAddr, szSize>>
       ELSE /\ uAddr' = Add32(uAddr, U32(NUMICRO_PAGESIZE))
            /\ szSize' = Sub32(szSize, U32(NUMICRO_PAGESIZE))
            /\ Goto("loop")
            /\ UNCHANGED ret
    /\ NoAccess
    /\ UNCHANGED <<argv, pSrc, resv, initv, fmcv, cntv>>
    /\ UNCHANGED <<probev, monv>>

\* uAddr = uAddr + NUMICRO_PAGESIZE; szSize = szSize - NUMICRO_PAGESIZE; platform_delay(100)
erase_region_step(f) ==
    /\ Running(f, "step")
    /\ uAddr' = Add32(uAddr, U32(NUMICRO_PAGESIZE))
    /\ szSize' = Sub32(szSize, U32(NUMICRO_PAGESIZE))
    /\ Goto("loop")
    /\ NoAccess
    /\ UNCHANGED <<ret, argv, pSrc, resv, initv, fmcv, cntv>>
    /\ UNCHANGED <<probev, monv>>

EraseRegion(f, bits, base, size) ==
    \/ erase_region_init(f, bits)
    \/ erase_region_chk(f, base, size)
    \/ erase_region_loop(f)
    \/ erase_region_step(f)

nu_m032_cmd_erase_aprom ==
    EraseRegion("erase_aprom", ISPCON_APUEN, NUMICRO_APROM_BASE, NUMICRO_APROM_SIZE)

nu_m032_cmd_erase_ldrom ==
    EraseRegion("erase_ldrom", ISPCON_LDUEN, NUMICRO_LDROM_BASE, NUMICRO_LDROM_SIZE)

nu_m032_cmd_erase_sprom ==
    EraseRegion("erase_sprom", ISPCON_SPUEN, NUMICRO_SPROM_BASE, NUMICRO_SPROM_SIZE)

---------------------------------------------------------------------------
(* nu_m032_cmd_erase_mass: the return values of the two calls are dropped *)

erase_mass_aprom ==
    /\ Running("erase_mass", "entry")
    /\ CallFrom("ldrom", "erase_aprom")
    /\ NoAccess
    /\ UNCHANGED <<ret, argv, loopv, resv, initv, fmcv, cntv>>
    /\ UNCHANGED <<probev, monv>>

erase_mass_ldrom ==
    /\ Running("erase_mass", "ldrom")
    /\ CallFrom("fin", "erase_ldrom")
    /\ NoAccess
    /\ UNCHANGED <<ret, argv, loopv, resv, initv, fmcv, cntv>>
    /\ UNCHANGED <<probev, monv>>

erase_mass_fin ==
    /\ Running("erase_mass", "fin")
    /\ ret' = 1
    /\ Return
    /\ NoAccess
    /\ UNCHANGED <<argv, loopv, resv, initv, fmcv, cntv>>
    /\ UNCHANGED <<probev, monv>>

nu_m032_cmd_erase_mass ==
    \/ erase_mass_aprom
    \/ erase_mass_ldrom
    \/ erase_mass_fin

---------------------------------------------------------------------------
(* nu_m032_cmd_erase_chip *)

\* as ChipEraseBits, without the security bit
ChipEraseBits_no_security == Or32(ISPCON_APUEN, ISPCON_LDUEN)

ChipEraseBits == Or32(Or32(ISPCON_APUEN, ISPCON_LDUEN), ISPCON_SPUEN)

\* uRegSample is declared without an initializer
erase_chip_init ==
    /\ Running("erase_chip", "entry")
    /\ uRegSample' \in Garbage
    /\ CallInit("chk", ChipEraseBits)
    /\ UNCHANGED <<ret, argv, loopv, uRegValue, fmcv>>
    /\ UNCHANGED <<probev, monv>>

erase_chip_cmd ==
    /\ Running("erase_chip", "chk")
    /\ IF ret # 0
       THEN /\ ret' = 0
            /\ Return
            /\ NoAccess
            /\ UNCHANGED <<fmcv, cntv>>
       ELSE /\ CallFmc("fin", FMC_ISPCMD_CHIPERASE, Zero32, Zero32, 0)
            /\ UNCHANGED ret
    /\ UNCHANGED <<argv, loopv, resv, initv>>
    /\ UNCHANGED <<probev, monv>>

\* platform_delay(100); return true
erase_chip_fin ==
    /\ Running("erase_chip", "fin")
    /\ ret' = 1
    /\ Return
    /\ NoAccess
    /\ UNCHANGED <<argv, loopv, resv, initv, fmcv, cntv>>
    /\ UNCHANGED <<probev, monv>>

nu_m032_cmd_erase_chip ==
    \/ erase_chip_init
    \/ erase_chip_cmd
    \/ erase_chip_fin

---------------------------------------------------------------------------
(* nu_m032_set_config0, nu_m032_set_config1, nu_m032_set_config2 *)

set_config(f) ==
    /\ Running(f, "entry")
    /\ ret' = 1
    /\ Return
    /\ NoAccess
    /\ UNCHANGED <<argv, loopv, resv, initv, fmcv, cntv>>
    /\ UNCHANGED <<probev, monv>>

nu_m032_set_config0 == set_config("set_config0")

nu_m032_set_config1 == set_config("set_config1")

nu_m032_set_config2 == set_config("set_config2")

---------------------------------------------------------------------------
(* nu_m032_read_configs *)

ReadBits == Zero32

read_configs_init ==
    /\ Running("read_configs", "entry")
    /\ uRegSample' \in Garbage
    /\ uRegValue' = <<SENTINEL, SENTINEL, SENTINEL>>
    /\ CallInit("chk", ReadBits)
    /\ UNCHANGED <<ret, argv, loopv, fmcv>>
    /\ UNCHANGED <<probev, monv>>

read_configs_config0 ==
    /\ Running("read_configs", "chk")
    /\ IF ret # 0
       THEN /\ ret' = 0
            /\ Return
            /\ NoAccess
            /\ UNCHANGED <<fmcv, cntv>>
       ELSE /\ CallFmc("config1", FMC_ISPCMD_READ, NUMICRO_CONFIG0, Zero32, 1)
            /\ UNCHANGED ret
    /\ UNCHANGED <<argv, loopv, resv, initv>>
    /\ UNCHANGED <<probev, monv>>

read_configs_config1 ==
    /\ Running("read_configs", "config1")
    /\ CallFmc("config2", FMC_ISPCMD_READ, NUMICRO_CONFIG1, Zero32, 2)
    /\ UNCHANGED <<ret, argv, loopv, resv, initv>>
    /\ UNCHANGED <<probev, monv>>

read_configs_config2 ==
    /\ Running("read_configs", "config2")
    /\ CallFmc("ispcon", FMC_ISPCMD_READ, NUMICRO_CONFIG2, Zero32, 3)
    /\ UNCHANGED <<ret, argv, loopv, resv, initv>>
    /\ UNCHANGED <<probev, monv>>

\* ConfigBoot with the two reports exchanged
ConfigBoot_swapped(w) ==
    IF And32(w, U32(128)) = Zero32 THEN "Boot From APROM" ELSE "Boot From LDROM"

\* if ((uRegValue0 & (1<<7)) == 0): the boot source the configuration word names
ConfigBoot(w) ==
    IF And32(w, U32(128)) = Zero32 THEN "Boot From LDROM" ELSE "Boot From APROM"

\* if ((uRegValue0 & CONFIG0_LOCK_MASK) == 0)
ConfigLock(w) ==
    IF And32(w, CONFIG0_LOCK_MASK) = Zero32 THEN "secure locked" ELSE "not locked"

\* if ((uRegSample & ISPCON_BS_MASK) == 0): the boot source ISPCON names
IspconBoot(v) ==
    IF And32(v, ISPCON_BS_MASK) = Zero32 THEN "Boot From APROM" ELSE "Boot From LDROM"

\* the three words are reported, then what the first tells, then what ISPCON,
\* read now, tells
read_configs_ispcon ==
    /\ Running("read_configs", "ispcon")
    /\ \E v \in IspconValues :
          /\ log' = <<[k |-> "R", reg |-> NUMICRO_FLASH_ISPCON, val |-> v]>>
          /\ uRegSample' = v
          /\ out' = <<uRegValue[1], uRegValue[2], uRegValue[3],
                      ConfigBoot(uRegValue[1]), ConfigLock(uRegValue[1]), IspconBoot(v)>>
    /\ logOf' = "read_configs"
    /\ ret' = 1
    /\ Return
    /\ UNCHANGED <<argv, loopv, uRegValue, initv, fmcv, cntv, nCmds, progress>>
    /\ UNCHANGED <<probev, tmoFirst>>

nu_m032_read_configs ==
    \/ read_configs_init
    \/ read_configs_config0
    \/ read_configs_config1
    \/ read_configs_config2
    \/ read_configs_ispcon

---------------------------------------------------------------------------
(* nu_m032_read_uid, nu_m032_read_cid: straight-line code, one command per
   word, the two functions differing in the opcode and the number of words *)

read_id_init(f) ==
    /\ Running(f, "entry")
    /\ uRegSample' \in Garbage
    /\ CallInit("chk", ReadBits)
    /\ UNCHANGED <<ret, argv, loopv, uRegValue, fmcv>>
    /\ UNCHANGED <<probev, monv>>

\* the command issued at label from, with the given offset as its address,
\* after the word of the command before it, if any, was reported
read_id_cmd(f, opcode, from, to, offset) ==
    /\ Running(f, from)
    /\ IF from = "chk" /\ ret # 0
       THEN /\ ret' = 0
            /\ Return
            /\ NoAccess
            /\ UNCHANGED <<fmcv, cntv, out>>
       ELSE /\ CallFmc(to, opcode, U32(offset), Zero32, 0)
            /\ out' = IF from = "chk" THEN out ELSE Append(out, uRegSample)
            /\ UNCHANGED ret
    /\ UNCHANGED <<argv, loopv, resv, initv>>
    /\ UNCHANGED <<probev, tmoFirst>>

\* the word of the last command is reported; return true
read_id_fin(f) ==
    /\ Running(f, "fin")
    /\ out' = Append(out, uRegSample)
    /\ ret' = 1
    /\ Return
    /\ NoAccess
    /\ UNCHANGED <<argv, loopv, resv, initv, fmcv, cntv>>
    /\ UNCHANGED <<probev, tmoFirst>>

nu_m032_read_uid ==
    \/ read_id_init("read_uid")
    \/ read_id_cmd("read_uid", FMC_ISPCMD_READ_UID, "chk", "word1", 0)
    \/ read_id_cmd("read_uid", FMC_ISPCMD_READ_UID, "word1", "word2", 4)
    \/ read_id_cmd("read_uid", FMC_ISPCMD_READ_UID, "word2", "fin", 8)
    \/ read_id_fin("read_uid")

nu_m032_read_cid ==
    \/ read_id_init("read_cid")
    \/ read_id_cmd("read_cid", FMC_ISPCMD_READ_CID, "chk", "word1", 0)
    \/ read_id_cmd("read_cid", FMC_ISPCMD_READ_CID, "word1", "word2", 4)
    \/ read_id_cmd("read_cid", FMC_ISPCMD_READ_CID, "word2", "word3", 8)
    \/ read_id_cmd("read_cid", FMC_ISPCMD_READ_CID, "word3", "fin", 12)
    \/ read_id_fin("read_cid")

---------------------------------------------------------------------------
(* nu_m032_read_aprom_page1: two loops of one page each, word by word *)

read_page_init ==
    /\ Running("read_aprom_page1", "entry")
    /\ uRegSample' \in Garbage
    /\ CallInit("chk", ReadBits)
    /\ UNCHANGED <<ret, argv, loopv, uRegValue, fmcv>>
    /\ UNCHANGED <<probev, monv>>

read_page_chk ==
    /\ Running("read_aprom_page1", "chk")
    /\ IF ret # 0
       THEN ret' = 0 /\ Return /\ UNCHANGED loopv
       ELSE /\ ret' = ret
            /\ uAddr' = NUMICRO_APROM_BASE
            /\ szSize' = U32(NUMICRO_PAGESIZE)
            /\ UNCHANGED pSrc
            /\ Goto("loop1")
    /\ NoAccess
    /\ UNCHANGED <<argv, resv, initv, fmcv, cntv>>
    /\ UNCHANGED <<probev, monv>>

\* page is 1 or 2; after the first loop the second starts one page further
read_page_loop(page) ==
    /\ Running("read_aprom_page1", IF page = 1 THEN "loop1" ELSE "loop2")
    /\ IF szSize # Zero32
       THEN /\ uRegSample' = Zero32
            /\ CallFmc(IF page = 1 THEN "step1" ELSE "step2",
                       FMC_ISPCMD_READ, uAddr, Zero32, 0)
            /\ UNCHANGED <<ret, loopv>>
       ELSE /\ IF page = 1
               THEN /\ uAddr' = Add32(NUMICRO_APROM_BASE, U32(NUMICRO_PAGESIZE))
                    /\ szSize' = U32(NUMICRO_PAGESIZE)
                    /\ Goto("loop2")
                    /\ UNCHANGED ret
               ELSE /\ ret' = 1
                    /\ Return
                    /\ UNCHANGED <<uAddr, szSize>>
            /\ NoAccess
            /\ UNCHANGED <<uRegSample, pSrc, fmcv, cntv>>
    /\ UNCHANGED <<argv, uRegValue, initv>>
    /\ UNCHANGED <<probev, monv>>

\* uAddr = uAddr + 4; szSize = szSize - 4 (the words of the dump are printed
\* one by one and are not kept in out)
read_page_step(page) ==
    /\ Running("read_aprom_page1", IF page = 1 THEN "step1" ELSE "step2")
    /\ uAddr' = Add32(uAddr, U32(4))
    /\ szSize' = Sub32(szSize, U32(4))
    /\ Goto(IF page = 1 THEN "loop1" ELSE "loop2")
    /\ NoAccess
    /\ UNCHANGED <<ret, argv, pSrc, resv, initv, fmcv, cntv>>
    /\ UNCHANGED <<probev, monv>>

nu_m032_read_aprom_page1 ==
    \/ read_page_init
    \/ read_page_chk
    \/ read_page_loop(1)
    \/ read_page_step(1)
    \/ read_page_loop(2)
    \/ read_page_step(2)

---------------------------------------------------------------------------
(* nu_m032_flash_erase *)

FlashEraseBits == Or32(ISPCON_APUEN, ISPCON_LDUEN)

flash_erase_init ==
    /\ Running("flash_erase", "entry")
    /\ uRegSample' = Zero32
    /\ CallInit("chk", FlashEraseBits)
    /\ UNCHANGED <<ret, argv, loopv, uRegValue, fmcv>>
    /\ UNCHANGED <<probev, monv>>

\* return false, which is 0
flash_erase_chk ==
    /\ Running("flash_erase", "chk")
    /\ IF ret # 0
       THEN ret' = 0 /\ Return /\ UNCHANGED loopv
       ELSE /\ ret' = ret
            /\ uAddr' = a_addr
            /\ szSize' = a_len
            /\ UNCHANGED pSrc
            /\ Goto("loop")
    /\ NoAccess
    /\ UNCHANGED <<argv, resv, initv, fmcv, cntv>>
    /\ UNCHANGED <<probev, monv>>

\* a loop that has issued MaxIssue commands is followed no further
flash_erase_loop ==
    /\ Running("flash_erase", "loop")
    /\ IF szSize # Zero32
       THEN /\ nCmds < MaxIssue
            /\ CallFmc("step", FMC_ISPCMD_ERASE, uAddr, Zero32, 0)
            /\ UNCHANGED ret
       ELSE /\ ret' = 0
            /\ Return
            /\ NoAccess
            /\ UNCHANGED <<fmcv, cntv>>
    /\ UNCHANGED <<argv, loopv, resv, initv>>
    /\ UNCHANGED <<probev, monv>>

\* as flash_erase_step, the address advancing by a word
flash_erase_step_word ==
    /\ Running("flash_erase", "step")
    /\ uAddr' = Add32(uAddr, U32(4))
    /\ szSize' = Sub32(szSize, U32(NUMICRO_PAGESIZE))
    /\ Goto("loop")
    /\ NoAccess
    /\ UNCHANGED <<ret, argv, pSrc, resv, initv, fmcv, cntv>>
    /\ UNCHANGED <<probev, monv>>

flash_erase_step ==
    /\ Running("flash_erase", "step")
    /\ uAddr' = Add32(uAddr, U32(NUMICRO_PAGESIZE))
    /\ szSize' = Sub32(szSize, U32(NUMICRO_PAGESIZE))
    /\ Goto("loop")
    /\ NoAccess
    /\ UNCHANGED <<ret, argv, pSrc, resv, initv, fmcv, cntv>>
    /\ UNCHANGED <<probev, monv>>

nu_m032_flash_erase ==
    \/ flash_erase_init
    \/ flash_erase_chk
    \/ flash_erase_loop
    \/ flash_erase_step

---------------------------------------------------------------------------
(* nu_m032_flash_write *)

\* as flash_write_init, the engine initialized first as flash_erase does
flash_write_init_isp ==
    /\ Running("flash_write", "entry")
    /\ uRegSample' \in Garbage
    /\ pSrc' = 1
    /\ uAddr' = a_addr
    /\ szSize' = a_len
    /\ CallInit("loop", FlashEraseBits)
    /\ UNCHANGED <<ret, argv, uRegValue, fmcv>>
    /\ UNCHANGED <<probev, monv>>

\* pSrc = (uint32_t*)src; uAddr = dest; szSize = len; uRegSample is declared
\* without an initializer
flash_write_init ==
    /\ Running("flash_write", "entry")
    /\ uRegSample' \in Garbage
    /\ pSrc' = 1
    /\ uAddr' = a_addr
    /\ szSize' = a_len
    /\ Goto("loop")
    /\ NoAccess
    /\ UNCHANGED <<ret, argv, uRegValue, initv, fmcv, cntv>>
    /\ UNCHANGED <<probev, monv>>

\* *pSrc: a word of the buffer, or anything once pSrc has left the buffer
SrcWords == IF pSrc \in 1..Len(a_src) THEN {a_src[pSrc]} ELSE DataValues

flash_write_loop ==
    /\ Running("flash_write", "loop")
    /\ IF szSize # Zero32
       THEN /\ nCmds < MaxIssue
            /\ \E uRegWrite \in SrcWords :
                  CallFmc("step", FMC_ISPCMD_WRITE, uAddr, uRegWrite, 0)
            /\ UNCHANGED ret
       ELSE /\ ret' = 0
            /\ Return
            /\ NoAccess
            /\ UNCHANGED <<fmcv, cntv>>
    /\ UNCHANGED <<argv, loopv, resv, initv>>
    /\ UNCHANGED <<probev, monv>>

\* as flash_write_step, without pSrc++
flash_write_step_same_word ==
    /\ Running("flash_write", "step")
    /\ uAddr' = Add32(uAddr, U32(4))
    /\ pSrc' = pSrc
    /\ szSize' = Sub32(szSize, U32(4))
    /\ Goto("loop")
    /\ NoAccess
    /\ UNCHANGED <<ret, argv, resv, initv, fmcv, cntv>>
    /\ UNCHANGED <<probev, monv>>

\* uAddr = uAddr + 4; pSrc++; szSize = szSize - 4; platform_delay(10)
flash_write_step ==
    /\ Running("flash_write", "step")
    /\ uAddr' = Add32(uAddr, U32(4))
    /\ pSrc' = pSrc + 1
    /\ szSize' = Sub32(szSize, U32(4))
    /\ Goto("loop")
    /\ NoAccess
    /\ UNCHANGED <<ret, argv, resv, initv, fmcv, cntv>>
    /\ UNCHANGED <<probev, monv>>

nu_m032_flash_write ==
    \/ flash_write_init
    \/ flash_write_loop
    \/ flash_write_step

---------------------------------------------------------------------------
(* nu_m032_add_flash and nu_m032_probe *)

\* target_add_ram(t, start, len): the RAM region joins the target's
target_add_ram(start, len) ==
    [target EXCEPT !.ram = Append(@, [start |-> start, length |-> len])]

\* target_add_commands(t, cmds, name): the command list joins the target's
target_add_commands(cmds, name) ==
    [target EXCEPT !.commands = Append(@, [cmds |-> cmds, name |-> name])]

\* target_add_flash(t, f): the region joins the target's
target_add_flash(f) == [target EXCEPT !.flash = Append(@, f)]

\* calloc gives the descriptor or fails; when it fails the region is left out
nu_m032_add_flash(a, length, erasesize) ==
    \E f \in {"null", "descriptor"} :
        target' = IF f = "null"
                  THEN [target EXCEPT !.nomem = @ + 1]
                  ELSE target_add_flash(
                          [start |-> a, length |-> length, blocksize |-> erasesize,
                           erase |-> "nu_m032_flash_erase",
                           write |-> "nu_m032_flash_write",
                           buf_size |-> erasesize, erased |-> 255])

\* nu_m032_cmd_list, without the help texts
nu_m032_cmd_list ==
    <<"erase_aprom", "erase_ldrom", "erase_sprom", "erase_mass", "erase_chip",
      "set_config0", "set_config1", "set_config2", "read_configs", "read_uid",
      "read_cid", "read_aprom_page1">>

NUMICRO_CHIP_ID_ADDRESS == W(\h4000, \h0000)

\* as M032LD2AE, with another last digit
M032LD2AE_other == W(\h0113, \h2D01)

\* case 0x01132D00
M032LD2AE == W(\h0113, \h2D00)

\* uChipID = 0; stored_idcode = t->idcode, as a uint16_t; the test of
\* t->cpuid against CORTEX_M0
probe_entry ==
    /\ Running("probe", "entry")
    /\ uChipID' = Zero32
    /\ stored_idcode' = target.idcode % 65536
    /\ Goto(IF target.cpuid_m0 THEN "rd_id" ELSE "switch")
    /\ NoAccess
    /\ UNCHANGED <<ret, argv, loopv, resv, initv, fmcv, cntv, target, monv>>

probe_rd_id ==
    /\ Running("probe", "rd_id")
    /\ \E v \in ChipIdValues :
          /\ target_mem_read32(NUMICRO_CHIP_ID_ADDRESS, v)
          /\ uChipID' = v
    /\ Goto("switch")
    /\ UNCHANGED <<ret, argv, loopv, resv, initv, fmcv, cntv, target, stored_idcode, monv>>

\* switch (uChipID)
probe_switch ==
    /\ Running("probe", "switch")
    /\ IF uChipID = M032LD2AE
       THEN /\ target' = [target EXCEPT !.driver = "M032LD2AE"]
            /\ Goto("add_ram")
            /\ UNCHANGED ret
       ELSE /\ target' = [target EXCEPT !.idcode = stored_idcode]
            /\ ret' = 0
            /\ Return
    /\ NoAccess
    /\ UNCHANGED <<argv, loopv, resv, initv, fmcv, cntv, uChipID, stored_idcode, monv>>

probe_add_ram ==
    /\ Running("probe", "add_ram")
    /\ target' = target_add_ram(W(\h2000, \h0000), U32(\h2000))
    /\ Goto("add_aprom")
    /\ NoAccess
    /\ UNCHANGED <<ret, argv, loopv, resv, initv, fmcv, cntv, uChipID, stored_idcode, monv>>

\* one of the three calls of nu_m032_add_flash, at label from
probe_add_flash(from, to, a, length, erasesize) ==
    /\ Running("probe", from)
    /\ nu_m032_add_flash(a, length, erasesize)
    /\ Goto(to)
    /\ NoAccess
    /\ UNCHANGED <<ret, argv, loopv, resv, initv, fmcv, cntv, uChipID, stored_idcode, monv>>

probe_add_commands ==
    /\ Running("probe", "add_commands")
    /\ target' = target_add_commands(nu_m032_cmd_list, "M032xxxxx")
    /\ ret' = 1
    /\ Return
    /\ NoAccess
    /\ UNCHANGED <<argv, loopv, resv, initv, fmcv, cntv, uChipID, stored_idcode, monv>>

nu_m032_probe ==
    \/ probe_entry
    \/ probe_rd_id
    \/ probe_switch
    \/ probe_add_ram
    \/ probe_add_flash("add_aprom", "add_ldrom", NUMICRO_APROM_BASE,
                       NUMICRO_APROM_SIZE, U32(NUMICRO_PAGESIZE))
    \/ probe_add_flash("add_ldrom", "add_config", NUMICRO_LDROM_BASE,
                       U32(\h800), U32(NUMICRO_PAGESIZE))
    \/ probe_add_flash("add_config", "add_commands", NUMICRO_CONFIG_BASE,
                       U32(12), U32(4))
    \/ probe_add_commands

---------------------------------------------------------------------------
(* The entry points, called one at a time (nothing runs concurrently) *)

\* a target that no probe has dealt with; nomem counts the calls of
\* nu_m032_add_flash in which calloc has failed, and idcode_before is
\* t->idcode as it was when the probe was invoked
NoTarget ==
    [cpuid_m0 |-> FALSE, idcode |-> 0, driver |-> "", ram |-> <<>>,
     flash |-> <<>>, commands |-> <<>>, nomem |-> 0, idcode_before |-> 0]

Idle ==
    /\ ctl = <<>>
    /\ ret = 0
    /\ a_addr = Zero32
    /\ a_len = Zero32
    /\ a_src = <<>>
    /\ uAddr = Zero32
    /\ szSize = Zero32
    /\ pSrc = 1
    /\ uRegSample = Zero32
    /\ uRegValue = <<Zero32, Zero32, Zero32>>
    /\ uExtraconf = Zero32
    /\ reg_stat = Zero32
    /\ cmd = Zero32
    /\ addr = Zero32
    /\ wdata = Zero32
    /\ rdata = 0
    /\ timeout = 0
    /\ status = Zero32
    /\ log = <<>>
    /\ logOf = "idle"
    /\ trgReads = 0
    /\ delays = 0
    /\ nCmds = 0
    /\ nInits = 0
    /\ progress = 0
    /\ target = NoTarget
    /\ uChipID = Zero32
    /\ stored_idcode = 0
    /\ out = <<>>
    /\ tmoFirst = FALSE

Init == Idle

\* the attach sequence runs nu_m032_probe on a target no driver has claimed
RunProbe ==
    /\ ctl = <<>>
    /\ ctl' = <<<<"probe", "entry">>>>
    /\ \E m0 \in BOOLEAN, id \in IdCodes :
          target' = [NoTarget EXCEPT !.cpuid_m0 = m0, !.idcode = id,
                                     !.idcode_before = id]
    /\ logOf' = "probe"
    /\ UNCHANGED <<ret, argv, loopv, resv, initv, fmcv, log, nCmds, progress, cntv,
                   uChipID, stored_idcode, monv>>

\* the command dispatcher runs a handler of nu_m032_cmd_list
RunCommand ==
    /\ ctl = <<>>
    /\ \E i \in 1..Len(nu_m032_cmd_list) :
          /\ ctl' = <<<<nu_m032_cmd_list[i], "entry">>>>
          /\ logOf' = nu_m032_cmd_list[i]
    /\ UNCHANGED <<ret, argv, loopv, resv, initv, fmcv, log, nCmds, progress, cntv>>
    /\ UNCHANGED <<probev, monv>>

\* the flash subsystem runs f->erase(f, addr, len)
RunFlashErase ==
    /\ ctl = <<>>
    /\ ctl' = <<<<"flash_erase", "entry">>>>
    /\ a_addr' \in FlashAddrs
    /\ a_len' \in EraseLens
    /\ logOf' = "flash_erase"
    /\ UNCHANGED <<ret, a_src, loopv, resv, initv, fmcv, log, nCmds, progress, cntv>>
    /\ UNCHANGED <<probev, monv>>

\* the flash subsystem runs f->write(f, dest, src, len), src holding len bytes:
\* a_src is made of the whole words of src
RunFlashWrite ==
    /\ ctl = <<>>
    /\ ctl' = <<<<"flash_write", "entry">>>>
    /\ a_addr' \in FlashAddrs
    /\ \E l \in WriteLens :
          /\ a_len' = l
          /\ a_src' \in [1..(Nat32(l) \div 4) -> WordValues]
    /\ logOf' = "flash_write"
    /\ UNCHANGED <<ret, loopv, resv, initv, fmcv, log, nCmds, progress, cntv>>
    /\ UNCHANGED <<probev, monv>>

\* nu_m032_fmc_cmd alone, with any opcode
RunFmcCmd ==
    /\ ctl = <<>>
    /\ ctl' = <<<<"fmc_cmd", "entry">>>>
    /\ cmd' \in Opcodes
    /\ addr' \in CmdAddrs
    /\ wdata' \in WordValues
    /\ uRegSample' \in Garbage
    /\ logOf' = "fmc_cmd"
    /\ UNCHANGED <<ret, argv, loopv, uRegValue, initv, rdata, timeout, status,
                   log, nCmds, progress, cntv>>
    /\ UNCHANGED <<probev, monv>>

\* nu_m032_init_isp alone
RunInitIsp ==
    /\ ctl = <<>>
    /\ ctl' = <<<<"init_isp", "entry">>>>
    /\ uExtraconf' \in ExtraConfs
    /\ nInits' = 1
    /\ logOf' = "init_isp"
    /\ UNCHANGED <<ret, argv, loopv, resv, reg_stat, fmcv, log, nCmds, progress,
                   trgReads, delays>>
    /\ UNCHANGED <<probev, monv>>

\* nu_m032_reg_unlock alone
RunRegUnlock ==
    /\ ctl = <<>>
    /\ ctl' = <<<<"reg_unlock", "entry">>>>
    /\ logOf' = "reg_unlock"
    /\ UNCHANGED <<ret, argv, loopv, resv, initv, fmcv, log, nCmds, progress, cntv>>
    /\ UNCHANGED <<probev, monv>>

\* the entry point has returned; its locals and the record of its accesses end
Finish ==
    /\ Len(ctl) = 1
    /\ Head(ctl)[2] = "done"
    /\ ctl' = <<>>
    /\ ret' = 0
    /\ a_addr' = Zero32
    /\ a_len' = Zero32
    /\ a_src' = <<>>
    /\ uAddr' = Zero32
    /\ szSize' = Zero32
    /\ pSrc' = 1
    /\ uRegSample' = Zero32
    /\ uRegValue' = <<Zero32, Zero32, Zero32>>
    /\ uExtraconf' = Zero32
    /\ reg_stat' = Zero32
    /\ cmd' = Zero32
    /\ addr' = Zero32
    /\ wdata' = Zero32
    /\ rdata' = 0
    /\ timeout' = 0
    /\ status' = Zero32
    /\ log' = <<>>
    /\ logOf' = "idle"
    /\ trgReads' = 0
    /\ delays' = 0
    /\ nCmds' = 0
    /\ nInits' = 0
    /\ progress' = 0
    /\ target' = NoTarget
    /\ uChipID' = Zero32
    /\ stored_idcode' = 0
    /\ out' = <<>>
    /\ tmoFirst' = FALSE

Next ==
    \/ RunProbe
    \/ nu_m032_probe
    \/ RunCommand
    \/ RunFlashErase
    \/ RunFlashWrite
    \/ RunFmcCmd
    \/ RunInitIsp
    \/ RunRegUnlock
    \/ Finish
    \/ nu_m032_reg_unlock
    \/ nu_m032_init_isp
    \/ nu_m032_fmc_cmd
    \/ nu_m032_cmd_erase_aprom
    \/ nu_m032_cmd_erase_ldrom
    \/ nu_m032_cmd_erase_sprom
    \/ nu_m032_cmd_erase_mass
    \/ nu_m032_cmd_erase_chip
    \/ nu_m032_set_config0
    \/ nu_m032_set_config1
    \/ nu_m032_set_config2
    \/ nu_m032_read_configs
    \/ nu_m032_read_uid
    \/ nu_m032_read_cid
    \/ nu_m032_read_aprom_page1
    \/ nu_m032_flash_erase
    \/ nu_m032_flash_write

Spec == Init /\ [][Next]_vars

\* nu_m032_fmc_cmd alone: what its callers do is left out
NextFmc ==
    \/ RunFmcCmd
    \/ Finish
    \/ nu_m032_fmc_cmd

\* a call that has begun goes on (the driver is single-threaded and blocking)
FairSpecFmc == Init /\ [][NextFmc]_vars /\ WF_vars(nu_m032_fmc_cmd)

---------------------------------------------------------------------------
(* What the properties are stated with *)

Wr(reg, val) == [k |-> "W", reg |-> reg, val |-> val]

Rd(reg, val) == [k |-> "R", reg |-> reg, val |-> val]

IsPrefix(s, t) == Len(s) <= Len(t) /\ SubSeq(t, 1, Len(s)) = s

\* some bit of mask is set in v
HasBit(v, mask) == And32(v, mask) # Zero32

\* a < b, as unsigned 32-bit numbers
Less32(a, b) == a[1] < b[1] \/ (a[1] = b[1] /\ a[2] < b[2])

\* the places of log where register reg is written, or read
Writes(reg) == {i \in 1..Len(log) : log[i].k = "W" /\ log[i].reg = reg}

Reads(reg) == {i \in 1..Len(log) : log[i].k = "R" /\ log[i].reg = reg}

\* log is about a call of nu_m032_fmc_cmd, running or returned
FmcLog == logOf = "fmc_cmd"

InFmc == ctl # <<>> /\ Head(ctl)[1] = "fmc_cmd" /\ Head(ctl)[2] # "done"

FmcReturned == FmcLog /\ ~InFmc

AtDone == Len(ctl) = 1 /\ Head(ctl)[2] = "done"

\* the writes that issue the command (c, a, w)
IssueWrites(c, a, w) ==
    <<Wr(NUMICRO_FLASH_ISPCMD, c), Wr(NUMICRO_FLASH_ISPADR, a)>>
    \o (IF c = FMC_ISPCMD_WRITE THEN <<Wr(NUMICRO_FLASH_ISPDAT, w)>> ELSE <<>>)
    \o <<Wr(NUMICRO_FLASH_ISPTRG, ISPTRG_ISPGO)>>

\* the command has been issued: the trigger register has been written
Issued == FmcLog /\ Writes(NUMICRO_FLASH_ISPTRG) # {}

---------------------------------------------------------------------------
(* C1: in every call of nu_m032_fmc_cmd the first register accesses are the
   writes of the opcode to ISPCMD, of the address to ISPADR, of the payload
   to ISPDAT (when, and only when, the opcode is write) and of the go bit to
   ISPTRG, in this order; ISPTRG is written exactly once in the call, and is
   not read before that write. *)
IssueOrder ==
    FmcLog =>
        LET e == IssueWrites(cmd, addr, wdata)
        IN  /\ IsPrefix(log, e) \/ IsPrefix(e, log)
            /\ Cardinality(Writes(NUMICRO_FLASH_ISPTRG)) <= 1
            /\ FmcReturned => IsPrefix(e, log)
            /\ \A r \in Reads(NUMICRO_FLASH_ISPTRG) :
                  \E w \in Writes(NUMICRO_FLASH_ISPTRG) : w < r

\* a write command that ran alone has returned, after its flag-fail was cleared
IssueOrderWitness ==
    /\ FmcReturned
    /\ Top = "fmc_cmd"
    /\ cmd = FMC_ISPCMD_WRITE
    /\ Len(log) = 7

---------------------------------------------------------------------------
(* C2, as claimed: when the wait of nu_m032_fmc_cmd has ended, by the go bit
   read clear or by the budget running out, the call reads ISPCON and, when
   bit 6 of the value read is set, writes that value back to ISPCON. *)
FlagClearAfterWaitOrTimeout ==
    FmcReturned =>
        \E i \in Reads(NUMICRO_FLASH_ISPCON) :
            /\ \A r \in Reads(NUMICRO_FLASH_ISPTRG) : r < i
            /\ HasBit(log[i].val, U32(64)) =>
                  /\ i < Len(log)
                  /\ log[i + 1] = Wr(NUMICRO_FLASH_ISPCON, log[i].val)

(* C2, amended: when the wait has ended by the go bit read clear, the call
   reads ISPCON next and, exactly when bit 6 of the value read is set, writes
   that value back to ISPCON next; when the wait has ended by the budget
   running out, the last read of ISPTRG is the call's last register access. *)
FlagClearAfterCompletion ==
    FmcReturned =>
        LET n == Len(IssueWrites(cmd, addr, wdata)) + 1
        IN  /\ Len(log) >= n
            /\ log[n].k = "R" /\ log[n].reg = NUMICRO_FLASH_ISPTRG
            /\ IF ~HasBit(log[n].val, U32(1))
               THEN /\ Len(log) > n
                    /\ log[n + 1].k = "R" /\ log[n + 1].reg = NUMICRO_FLASH_ISPCON
                    /\ IF HasBit(log[n + 1].val, U32(64))
                       THEN /\ Len(log) > n + 1
                            /\ log[n + 2] = Wr(NUMICRO_FLASH_ISPCON, log[n + 1].val)
                       ELSE Writes(NUMICRO_FLASH_ISPCON) = {}
               ELSE /\ Len(log) = n
                    /\ trgReads = FMC_TIMEOUT + 1

\* a call has returned after it read the flag-fail bit set and wrote it back
FlagClearWitness ==
    /\ FmcReturned
    /\ Writes(NUMICRO_FLASH_ISPCON) # {}

---------------------------------------------------------------------------
(* C3: every call of nu_m032_fmc_cmd returns, whatever ISPTRG reads as; it
   reads ISPTRG at most 101 times and delays at most 100 times, each turn of
   the loop spending one unit of the budget of 100; and it polls no further
   once a read has shown the go bit clear. *)
PollBudget ==
    /\ trgReads <= FMC_TIMEOUT + 1
    /\ delays <= FMC_TIMEOUT
    /\ Running("fmc_cmd", "poll") =>
          /\ trgReads + timeout = FMC_TIMEOUT
          /\ delays = trgReads
          /\ \A r \in Reads(NUMICRO_FLASH_ISPTRG) : HasBit(log[r].val, U32(1))
    /\ Running("fmc_cmd", "rd_con") =>
          /\ delays = trgReads - 1
          /\ \E r \in Reads(NUMICRO_FLASH_ISPTRG) : ~HasBit(log[r].val, U32(1))

FmcTerminates == []PollBudget /\ (InFmc ~> FmcReturned)

\* the budget ran out: 101 reads, 100 delays, the go bit still set
PollBudgetWitness ==
    /\ FmcReturned
    /\ trgReads = FMC_TIMEOUT + 1
    /\ delays = FMC_TIMEOUT
    /\ HasBit(log[Len(log)].val, U32(1))

---------------------------------------------------------------------------
(* C4: a call of nu_m032_fmc_cmd writes ISPDAT only when its opcode is write
   and reads ISPDAT only when its opcode is read, whether the command
   completes or the budget runs out. *)
DataRegisterUse ==
    FmcLog =>
        /\ cmd # FMC_ISPCMD_WRITE => Writes(NUMICRO_FLASH_ISPDAT) = {}
        /\ cmd # FMC_ISPCMD_READ => Reads(NUMICRO_FLASH_ISPDAT) = {}

\* a set-vector-map command completed and its flag-fail was cleared
DataRegisterUseWitness ==
    /\ FmcReturned
    /\ cmd = FMC_ISPCMD_VECMAP
    /\ Writes(NUMICRO_FLASH_ISPCON) # {}
    /\ Writes(NUMICRO_FLASH_ISPDAT) = {}
    /\ Reads(NUMICRO_FLASH_ISPDAT) = {}

---------------------------------------------------------------------------
\* the call of nu_m032_fmc_cmd that log is about is the k-th of the entry
\* point, counted from 0
CmdIndex == IF Issued THEN nCmds - 1 ELSE nCmds

\* len is a whole number n of units of size unit
Units(len, unit) == IF len[1] = 0 /\ len[2] % unit = 0 THEN len[2] \div unit ELSE -1

(* C5: in a call of nu_m032_flash_erase with address B and a length L that
   is a multiple of 512, whatever the hardware does, the i-th command issued
   (i from 0) is an erase command at address B + 512*i, the addresses
   increase, and when the call has returned L / 512 commands were issued. *)
FlashErasePages ==
    (Top = "flash_erase" /\ Units(a_len, 512) >= 0) =>
        /\ nCmds <= Units(a_len, 512)
        /\ AtDone => nCmds = Units(a_len, 512)
        /\ FmcLog =>
              /\ CmdIndex < Units(a_len, 512)
              /\ cmd = U32(\h22)
              /\ addr = Add32(a_addr, U32(512 * CmdIndex))
              /\ CmdIndex > 0 => Less32(Add32(a_addr, U32(512 * (CmdIndex - 1))), addr)
        /\ Issued =>
              SubSeq(log, 1, 3) =
                 <<Wr(NUMICRO_FLASH_ISPCMD, U32(\h22)),
                   Wr(NUMICRO_FLASH_ISPADR, Add32(a_addr, U32(512 * (nCmds - 1)))),
                   Wr(NUMICRO_FLASH_ISPTRG, U32(1))>>

\* three pages were erased from the last page of the main region on, and the
\* third command ran out of budget
FlashErasePagesWitness ==
    /\ Top = "flash_erase"
    /\ AtDone
    /\ a_addr = W(\h0000, \hFE00)
    /\ nCmds = 3
    /\ addr = W(\h0001, \h0200)
    /\ Len(log) = 4

---------------------------------------------------------------------------
(* C6: in a call of nu_m032_flash_write with destination D, buffer S and a
   length L that is a multiple of 4, the i-th command issued (i from 0) is a
   write command at address D + 4*i with the i-th word of S as its payload,
   the addresses increase, and when the call has returned L / 4 commands
   were issued. *)
FlashWriteWords ==
    (Top = "flash_write" /\ Units(a_len, 4) >= 0) =>
        /\ nCmds <= Units(a_len, 4)
        /\ AtDone => nCmds = Units(a_len, 4)
        /\ FmcLog =>
              /\ CmdIndex < Units(a_len, 4)
              /\ cmd = U32(\h21)
              /\ addr = Add32(a_addr, U32(4 * CmdIndex))
              /\ wdata = a_src[CmdIndex + 1]
              /\ CmdIndex > 0 => Less32(Add32(a_addr, U32(4 * (CmdIndex - 1))), addr)
        /\ Issued =>
              SubSeq(log, 1, 4) =
                 <<Wr(NUMICRO_FLASH_ISPCMD, U32(\h21)),
                   Wr(NUMICRO_FLASH_ISPADR, Add32(a_addr, U32(4 * (nCmds - 1)))),
                   Wr(NUMICRO_FLASH_ISPDAT, a_src[nCmds]),
                   Wr(NUMICRO_FLASH_ISPTRG, U32(1))>>

\* two different words were written to the loader region
FlashWriteWordsWitness ==
    /\ Top = "flash_write"
    /\ AtDone
    /\ a_addr = NUMICRO_LDROM_BASE
    /\ nCmds = 2
    /\ Len(a_src) = 2
    /\ a_src[1] # a_src[2]
    /\ wdata = a_src[2]
    /\ addr = W(\h0010, \h0004)

---------------------------------------------------------------------------
\* the accesses of a call of nu_m032_init_isp with region bits bits, given
\* the values ra and rc that AHBCLK and ISPCON read as
InitAccessAt(i, e, bits) ==
    CASE i = 1 -> e = Wr(NUMICRO_SYS_REGLCTL, U32(\h59))
      [] i = 2 -> e = Wr(NUMICRO_SYS_REGLCTL, U32(\h16))
      [] i = 3 -> e = Wr(NUMICRO_SYS_REGLCTL, U32(\h88))
      [] i = 4 -> e.k = "R" /\ e.reg = NUMICRO_SYS_REGLCTL
      [] i = 5 -> e.k = "R" /\ e.reg = NUMICRO_SYSCLK_AHBCLK
      [] i = 6 -> e = Wr(NUMICRO_SYSCLK_AHBCLK, Or32(log[5].val, U32(4)))
      [] i = 7 -> e.k = "R" /\ e.reg = NUMICRO_FLASH_ISPCON
      [] i = 8 -> e = Wr(NUMICRO_FLASH_ISPCON, Or32(log[7].val, Or32(U32(65), bits)))
      [] OTHER -> FALSE

\* what a region erase does after its k-th initialization of the engine,
\* when off commands were issued before it: the initialization with bits,
\* then erase commands page after page from base on, pages of them at most
RegionPhase(bits, base, pages, off) ==
    /\ uExtraconf = bits
    /\ off <= nCmds /\ nCmds <= off + pages
    /\ logOf = "init_isp" =>
          /\ nCmds = off
          /\ \A i \in 1..Len(log) : InitAccessAt(i, log[i], bits)
    /\ logOf = "fmc_cmd" =>
          /\ CmdIndex - off < pages
          /\ cmd = U32(\h22)
          /\ addr = Add32(base, U32(512 * (CmdIndex - off)))
          /\ IsPrefix(log, IssueWrites(cmd, addr, wdata))
                \/ IsPrefix(IssueWrites(cmd, addr, wdata), log)

\* erase_aprom and erase_ldrom, each run alone
RegionErasesAlone ==
    /\ Top = "erase_aprom" =>
          /\ nInits <= 1
          /\ nInits = 0 => nCmds = 0 /\ log = <<>>
          /\ nInits = 1 => RegionPhase(U32(8), W(0, 0), 128, 0)
          /\ AtDone => nInits = 1 /\ nCmds = 128
    /\ Top = "erase_ldrom" =>
          /\ nInits <= 1
          /\ nInits = 0 => nCmds = 0 /\ log = <<>>
          /\ nInits = 1 => RegionPhase(U32(32), W(\h0010, 0), 4, 0)
          /\ AtDone => nInits = 1 /\ nCmds = 4

\* erase_mass does what erase_aprom does and then what erase_ldrom does
MassEraseSequence ==
    Top = "erase_mass" =>
        /\ nInits <= 2
        /\ nInits = 0 => nCmds = 0 /\ log = <<>>
        /\ nInits = 1 => RegionPhase(U32(8), W(0, 0), 128, 0)
        /\ nInits = 2 => RegionPhase(U32(32), W(\h0010, 0), 4, 128)
        /\ AtDone => nInits = 2 /\ nCmds = 132

\* no command of erase_mass is at an address of the security region
MassEraseSparesSecurityRegion ==
    (Top = "erase_mass" /\ FmcLog) =>
        ~(addr[1] = \h0020 /\ addr[2] < \h0200)

\* no value that erase_mass writes to ISPCON has the security-unlock bit
MassEraseNoSecurityBit ==
    Top = "erase_mass" =>
        \A i \in Writes(NUMICRO_FLASH_ISPCON) : ~HasBit(log[i].val, U32(4))

\* what holds of the security-unlock bit: erase_mass writes it to ISPCON only
\* in a value that it has just read from ISPCON with that bit
MassEraseSecurityBitAsRead ==
    Top = "erase_mass" =>
        \A i \in Writes(NUMICRO_FLASH_ISPCON) :
            HasBit(log[i].val, U32(4)) =>
                /\ i > 1
                /\ log[i - 1].k = "R" /\ log[i - 1].reg = NUMICRO_FLASH_ISPCON
                /\ HasBit(log[i - 1].val, U32(4))

(* C7: erase_mass makes the register accesses and issues the commands of
   erase_aprom followed by those of erase_ldrom (128 erase commands from
   0x0 on after an initialization with the main bit, then 4 from 0x100000 on
   after one with the loader bit), issues no command at an address between
   0x200000 and 0x2001FF, and writes no value with the security-unlock bit
   (bit 2) to ISPCON. *)
MassEraseIsApromThenLdrom ==
    /\ RegionErasesAlone
    /\ MassEraseSequence
    /\ MassEraseSparesSecurityRegion
    /\ MassEraseNoSecurityBit

---------------------------------------------------------------------------
(* C8: erase_chip issues exactly one command: it writes the go bit to ISPTRG
   once, with opcode 0x26 in ISPCMD and address 0 in ISPADR, the payload
   being 0, after one initialization of the engine with the main, loader and
   security bits (0x2C). *)
ChipEraseOneCommand ==
    Top = "erase_chip" =>
        /\ nCmds <= 1 /\ nInits <= 1
        /\ AtDone => nCmds = 1
        /\ logOf = "init_isp" =>
              /\ nCmds = 0
              /\ uExtraconf = U32(\h2C)
              /\ \A i \in 1..Len(log) : InitAccessAt(i, log[i], U32(\h2C))
        /\ FmcLog =>
              /\ nInits = 1
              /\ uExtraconf = U32(\h2C)
              /\ cmd = U32(\h26) /\ addr = U32(0) /\ wdata = U32(0)
              /\ Writes(NUMICRO_FLASH_ISPDAT) = {}
              /\ Issued =>
                    SubSeq(log, 1, 3) =
                       <<Wr(NUMICRO_FLASH_ISPCMD, U32(\h26)),
                         Wr(NUMICRO_FLASH_ISPADR, U32(0)),
                         Wr(NUMICRO_FLASH_ISPTRG, U32(1))>>

\* erase_chip has returned after its one command completed
ChipEraseOneCommandWitness ==
    /\ Top = "erase_chip"
    /\ AtDone
    /\ nCmds = 1
    /\ Reads(NUMICRO_FLASH_ISPCON) # {}

---------------------------------------------------------------------------
\* the handlers of nu_m032_cmd_list that issue commands
MaintenanceOps ==
    {"erase_aprom", "erase_ldrom", "erase_sprom", "erase_mass", "erase_chip",
     "read_configs", "read_uid", "read_cid", "read_aprom_page1"}

(* C9: in each of the nine maintenance operations that issue commands, when
   ISPCMD or ISPTRG is written (and already when nu_m032_fmc_cmd is called)
   the same operation has written 0x59, 0x16 and 0x88 to REGLCTL, then a
   value with bit 2 to AHBCLK, then a value with bit 0 to ISPCON. *)
UnlockBeforeCommands ==
    Top \in MaintenanceOps =>
        /\ (FmcLog \/ nCmds > 0) => progress = 5
        /\ (Writes(NUMICRO_FLASH_ISPCMD) \cup Writes(NUMICRO_FLASH_ISPTRG)) # {}
              => progress = 5

\* read_cid has written its opcode to ISPCMD, the engine being initialized
UnlockBeforeCommandsWitness ==
    /\ Top = "read_cid"
    /\ FmcLog
    /\ Writes(NUMICRO_FLASH_ISPCMD) # {}
    /\ progress = 5

---------------------------------------------------------------------------
\* the region-unlock bits an operation needs
NeededUnlockBits ==
    [f \in MaintenanceOps \ {"erase_mass"} |->
        CASE f = "erase_aprom" -> U32(8)
          [] f = "erase_ldrom" -> U32(32)
          [] f = "erase_sprom" -> U32(4)
          [] f = "erase_chip" -> U32(\h2C)
          [] OTHER -> U32(0)]

(* C10: the value that the initialization of an operation writes to ISPCON
   has, of the region-unlock bits 2, 3 and 5, exactly those the operation
   needs: bit 3 for erase_aprom, bit 5 for erase_ldrom, bit 2 for
   erase_sprom, all three for erase_chip, none for read_configs, read_uid,
   read_cid and read_aprom_page1, whatever ISPCON held before. *)
InitWritesNeededBitsOnly ==
    (Top \in DOMAIN NeededUnlockBits /\ logOf = "init_isp") =>
        \A i \in Writes(NUMICRO_FLASH_ISPCON) :
            And32(log[i].val, U32(\h2C)) = NeededUnlockBits[Top]

\* what holds instead: the bits written are those needed and those read
InitWritesNeededAndReadBits ==
    (Top \in DOMAIN NeededUnlockBits /\ logOf = "init_isp") =>
        \A i \in Writes(NUMICRO_FLASH_ISPCON) :
            /\ i = 8
            /\ And32(log[i].val, U32(\h2C)) =
                  Or32(NeededUnlockBits[Top], And32(log[7].val, U32(\h2C)))

---------------------------------------------------------------------------
\* start, length and block size of the regions of the target, in order
RegionsOf(flash) ==
    [i \in 1..Len(flash) |->
        <<flash[i].start, flash[i].length, flash[i].blocksize>>]

\* the main, loader and configuration regions
ThreeRegions ==
    <<<<W(\h0000, \h0000), W(\h0001, \h0000), U32(512)>>,
      <<W(\h0010, \h0000), U32(\h0800), U32(512)>>,
      <<W(\h0030, \h0000), U32(12), U32(4)>>>>

\* s is t with some of its elements left out
RECURSIVE IsSubSeq(_, _)
IsSubSeq(s, t) ==
    IF s = <<>> THEN TRUE
    ELSE IF t = <<>> THEN FALSE
    ELSE IF Head(s) = Head(t) THEN IsSubSeq(Tail(s), Tail(t))
    ELSE IsSubSeq(s, Tail(t))

ProbeDone == Top = "probe" /\ AtDone

\* the core matched and the chip-ID register, read once, read 0x01132D00
ProbeMatch ==
    /\ target.cpuid_m0
    /\ log = <<Rd(W(\h4000, \h0000), W(\h0113, \h2D00))>>

\* nothing is registered, idcode is as before, the result is false
ProbeDeclined ==
    /\ ret = 0
    /\ target.ram = <<>> /\ target.flash = <<>> /\ target.commands = <<>>
    /\ target.idcode = target.idcode_before
    /\ target.driver = ""
    /\ ~target.cpuid_m0 => log = <<>>
    /\ target.cpuid_m0 =>
          Len(log) = 1 /\ log[1].k = "R" /\ log[1].reg = W(\h4000, \h0000)

\* RAM and the commands are registered, the result is true
ProbeInstalled ==
    /\ ret = 1
    /\ target.ram = <<[start |-> W(\h2000, \h0000), length |-> U32(\h2000)]>>
    /\ target.commands = <<[cmds |-> nu_m032_cmd_list, name |-> "M032xxxxx"]>>
    /\ Len(nu_m032_cmd_list) = 12
    /\ target.idcode = target.idcode_before

(* C11, as claimed: nu_m032_probe returns true exactly when the core matches
   Cortex-M0 and the chip-ID register reads 0x01132D00; it has then registered
   RAM of size 0x2000, exactly the three flash regions main, loader and
   configuration, and the commands; otherwise it has registered nothing,
   idcode is as before the probe, the result is false, and no register was
   read when the core did not match. *)
ProbeRegistersThreeRegions ==
    ProbeDone =>
        IF ProbeMatch
        THEN ProbeInstalled /\ RegionsOf(target.flash) = ThreeRegions
        ELSE ProbeDeclined

(* C11, amended: as claimed, but of the three flash regions those are
   registered, in the order main, loader, configuration, for which calloc
   gave nu_m032_add_flash a descriptor; a region whose descriptor could not
   be allocated is left out and the probe still returns true. *)
ProbeRegistersAllocatedRegions ==
    ProbeDone =>
        IF ProbeMatch
        THEN /\ ProbeInstalled
             /\ IsSubSeq(RegionsOf(target.flash), ThreeRegions)
             /\ Len(target.flash) + target.nomem = 3
        ELSE ProbeDeclined

\* a probe has installed the three regions, idcode being 0x0440
ProbeWitness ==
    /\ ProbeDone
    /\ ProbeMatch
    /\ RegionsOf(target.flash) = ThreeRegions
    /\ target.idcode = \h0440
    /\ ret = 1

---------------------------------------------------------------------------
\* the i-th access of nu_m032_reg_unlock
UnlockAccessAt(i, e) ==
    CASE i = 1 -> e = Wr(W(\h4000, \h0100), U32(\h59))
      [] i = 2 -> e = Wr(W(\h4000, \h0100), U32(\h16))
      [] i = 3 -> e = Wr(W(\h4000, \h0100), U32(\h88))
      [] i = 4 -> e.k = "R" /\ e.reg = W(\h4000, \h0100)
      [] OTHER -> FALSE

UnlockReturned ==
    \/ Top = "reg_unlock" /\ AtDone
    \/ Running("init_isp", "chk")

(* C12: a call of nu_m032_reg_unlock, run alone or by nu_m032_init_isp, writes
   0x59, 0x16 and 0x88 to the lock-control register in this order, then reads
   that register once, and accesses no other register; it returns true
   whatever the read gave. *)
UnlockSequence ==
    /\ logOf = "reg_unlock" => \A i \in 1..Len(log) : UnlockAccessAt(i, log[i])
    /\ (ctl # <<>> /\ Head(ctl)[1] = "reg_unlock") =>
          /\ \A i \in 1..Len(log) : UnlockAccessAt(i, log[i])
          /\ Len(log) = CASE Head(ctl)[2] = "entry" -> 0
                          [] Head(ctl)[2] = "key2" -> 1
                          [] Head(ctl)[2] = "key3" -> 2
                          [] Head(ctl)[2] = "read" -> 3
                          [] OTHER -> 4
    /\ UnlockReturned =>
          /\ Len(log) = 4
          /\ \A i \in 1..4 : UnlockAccessAt(i, log[i])
          /\ ret = 1

\* the unlocker, run alone, has returned true after reading zero
UnlockSequenceWitness ==
    /\ Top = "reg_unlock"
    /\ AtDone
    /\ ret = 1
    /\ Len(log) = 4
    /\ log[4].val = U32(0)

---------------------------------------------------------------------------
\* the label at which each caller of nu_m032_init_isp tests its result
InitCallers ==
    {"erase_aprom", "erase_ldrom", "erase_sprom", "erase_chip", "read_configs",
     "read_uid", "read_cid", "read_aprom_page1", "flash_erase"}

(* C14: nu_m032_init_isp returns 0 whatever the hardware does, also when the
   lock-control register reads zero after the keys; so each caller finds 0
   when it tests the result, and none returns early: a maintenance operation
   that has returned has returned true. *)
InitNeverFails ==
    /\ Running("init_isp", "chk") => ret = 1
    /\ (Top = "init_isp" /\ AtDone) => ret = 0 /\ Len(log) = 8
    /\ \A f \in InitCallers : Running(f, "chk") => ret = 0 /\ Len(log) = 8
    /\ (Top \in InitCallers \ {"flash_erase"} /\ AtDone) => ret = 1 /\ nInits = 1

\* read_configs has passed its test of the result, the lock-control register
\* having read zero
InitNeverFailsWitness ==
    /\ Top = "read_configs"
    /\ Running("read_configs", "chk")
    /\ log[4].val = U32(0)
    /\ ret = 0

---------------------------------------------------------------------------
\* the number of commands of each maintenance operation
CommandsOf ==
    [f \in MaintenanceOps |->
        CASE f = "erase_aprom" -> 128
          [] f = "erase_ldrom" -> 4
          [] f = "erase_sprom" -> 1
          [] f = "erase_mass" -> 132
          [] f = "erase_chip" -> 1
          [] f = "read_configs" -> 3
          [] f = "read_uid" -> 3
          [] f = "read_cid" -> 4
          [] OTHER -> 256]

(* C13: a command that exhausts its polling budget changes nothing for its
   caller: every maintenance operation that has returned has returned true
   and has issued all its commands, flash_erase and flash_write have
   returned 0 and have issued all theirs (those of a length that is a whole
   number of pages, or of words), whether or not commands timed out. *)
TimeoutNotPropagated ==
    /\ tmoFirst => nCmds >= 1
    /\ AtDone =>
          /\ Top \in MaintenanceOps => ret = 1 /\ nCmds = CommandsOf[Top]
          /\ Top \in {"set_config0", "set_config1", "set_config2"} =>
                ret = 1 /\ nCmds = 0
          /\ Top = "flash_erase" =>
                /\ ret = 0
                /\ Units(a_len, 512) >= 0 => nCmds = Units(a_len, 512)
          /\ Top = "flash_write" =>
                /\ ret = 0
                /\ Units(a_len, 4) >= 0 => nCmds = Units(a_len, 4)

\* erase_ldrom has returned true after four commands, the first of which
\* ran out of budget
TimeoutNotPropagatedWitness ==
    /\ Top = "erase_ldrom"
    /\ AtDone
    /\ tmoFirst
    /\ nCmds = 4
    /\ ret = 1

---------------------------------------------------------------------------
\* the command that log is about has completed: the go bit was read clear
Completed == FmcLog /\ \E r \in Reads(NUMICRO_FLASH_ISPTRG) : ~HasBit(log[r].val, U32(1))

\* opcode and number of words of the two identifier dumps
IdDumps == [read_uid |-> <<U32(\h04), 3>>, read_cid |-> <<U32(\h0B), 4>>]

\* the commands of the identifier dumps: the opcode, at offsets 0, 4, 8 (, 12)
IdCommands ==
    Top \in DOMAIN IdDumps =>
        /\ nCmds <= IdDumps[Top][2]
        /\ FmcLog => cmd = IdDumps[Top][1] /\ addr = U32(4 * CmdIndex)
        /\ AtDone => nCmds = IdDumps[Top][2] /\ Len(out) = IdDumps[Top][2]

\* a word is reported in this step
ReportsWord == Top \in DOMAIN IdDumps /\ Len(out') = Len(out) + 1

(* C15: read_uid issues three commands with opcode 0x04 at offsets 0, 4, 8
   and read_cid four with opcode 0x0B at offsets 0, 4, 8, 12, and each word
   they report after a command that completed is the value that command
   read from the ISP data register. *)
IdWordsReadFromDevice ==
    /\ []IdCommands
    /\ [][(ReportsWord /\ Completed) =>
             \E i \in Reads(NUMICRO_FLASH_ISPDAT) : log[i].val = out'[Len(out')]]_vars

---------------------------------------------------------------------------
\* the call (a, len) lies inside region r = <<base, size, block>> and is
\* aligned to unit
CallInRegion(a, len, r, unit) ==
    /\ Nat32(r[1]) <= Nat32(a)
    /\ Nat32(a) + Nat32(len) <= Nat32(r[1]) + Nat32(r[2])
    /\ (Nat32(a) - Nat32(r[1])) % unit = 0
    /\ Nat32(len) % unit = 0

AddrInRegion(a, r) ==
    Nat32(r[1]) <= Nat32(a) /\ Nat32(a) < Nat32(r[1]) + Nat32(r[2])

(* C16: in a call of nu_m032_flash_erase with an address and a length that lie
   inside a registered region and are aligned to its block size (512 for
   main and loader, 4 for configuration), every erase command is at an
   address of that region and the loop ends after one command per block; in
   such a call of nu_m032_flash_write, aligned to 4, every write command is
   at an address of that region. *)
FlashCallsStayInRegion ==
    \A n \in 1..3 :
        LET r == ThreeRegions[n] IN
        /\ (Top = "flash_erase" /\ CallInRegion(a_addr, a_len, r, Nat32(r[3]))) =>
              /\ FmcLog => AddrInRegion(addr, r)
              /\ nCmds <= Nat32(a_len) \div Nat32(r[3])
              /\ AtDone => nCmds = Nat32(a_len) \div Nat32(r[3])
        /\ (Top = "flash_write" /\ CallInRegion(a_addr, a_len, r, 4)) =>
              /\ FmcLog => AddrInRegion(addr, r)
              /\ nCmds <= Nat32(a_len) \div 4
              /\ AtDone => nCmds = Nat32(a_len) \div 4

\* what holds: the claim for the regions whose block is a page, and for writes
FlashCallsStayInPagedRegion ==
    \A n \in 1..3 :
        LET r == ThreeRegions[n] IN
        /\ (Top = "flash_erase" /\ r[3] = U32(512)
              /\ CallInRegion(a_addr, a_len, r, 512)) =>
              /\ FmcLog => AddrInRegion(addr, r)
              /\ nCmds <= Nat32(a_len) \div 512
              /\ AtDone => nCmds = Nat32(a_len) \div 512
        /\ (Top = "flash_write" /\ CallInRegion(a_addr, a_len, r, 4)) =>
              /\ FmcLog => AddrInRegion(addr, r)
              /\ nCmds <= Nat32(a_len) \div 4
              /\ AtDone => nCmds = Nat32(a_len) \div 4

---------------------------------------------------------------------------
\* commands and reports of read_configs: three reads at 0x300000, 0x300004,
\* 0x300008, then one read of ISPCON; the reports follow the first word held
\* and the ISPCON value read
ReadConfigsReports ==
    Top = "read_configs" =>
        /\ nCmds <= 3
        /\ FmcLog =>
              /\ cmd = U32(0)
              /\ addr = Add32(W(\h0030, \h0000), U32(4 * CmdIndex))
              /\ \A i \in Writes(NUMICRO_FLASH_ISPCMD) : log[i].val = U32(0)
              /\ \A i \in Writes(NUMICRO_FLASH_ISPADR) : log[i].val = addr
        /\ (AtDone /\ ret = 1) =>
              /\ nCmds = 3
              /\ Len(out) = 6
              /\ out[4] = IF HasBit(uRegValue[1], U32(128))
                          THEN "Boot From APROM" ELSE "Boot From LDROM"
              /\ out[5] = IF HasBit(uRegValue[1], U32(2))
                          THEN "not locked" ELSE "secure locked"
              /\ logOf = "read_configs"
              /\ Len(log) = 1
              /\ log[1].k = "R" /\ log[1].reg = NUMICRO_FLASH_ISPCON
              /\ out[6] = IF HasBit(log[1].val, U32(2))
                          THEN "Boot From LDROM" ELSE "Boot From APROM"

\* the first command of read_configs reads the ISP data register in this step
FirstWordRead ==
    /\ Top = "read_configs" /\ FmcLog /\ nCmds = 1
    /\ logOf' = "fmc_cmd"
    /\ Len(log') = Len(log) + 1
    /\ log'[Len(log')].k = "R"
    /\ log'[Len(log')].reg = NUMICRO_FLASH_ISPDAT

\* the first word held is the word the first command read, from then on
FirstWordKept ==
    (Top = "read_configs" /\ Top' = "read_configs" /\ nCmds >= 1) =>
        IF FirstWordRead
        THEN uRegValue'[1] = log'[Len(log')].val
        ELSE uRegValue'[1] = uRegValue[1]

(* C17: read_configs issues three read commands at 0x300000, 0x300004 and
   0x300008; the word W0 the first returns is held to the end, and the
   reports are: bit 7 of W0 clear, boot from loader, set, from main; bit 1 of
   W0 clear, locked, set, not locked; then ISPCON is read once and bit 1 of
   that value clear is reported as boot from main, set as from loader,
   whatever W0 told. *)
ReadConfigsReportsFirstWord ==
    /\ []ReadConfigsReports
    /\ [][FirstWordKept]_vars

\* read_configs has returned, its first read completed with a word that names
\* the loader, and ISPCON named main
ReadConfigsWitness ==
    /\ Top = "read_configs"
    /\ AtDone
    /\ ~tmoFirst
    /\ uRegValue[1] = U32(2)
    /\ out[4] = "Boot From LDROM"
    /\ out[5] = "not locked"
    /\ out[6] = "Boot From APROM"

---------------------------------------------------------------------------
\* nu_m032_init_isp has returned to the caller that tests its result
InitReturned ==
    \/ Top = "init_isp" /\ AtDone
    \/ \E f \in InitCallers : Running(f, "chk")

\* reg is read at most once and written at most once, the write right after
\* the read, with the value read and bits
ReadModifyWrite(reg, bits) ==
    /\ Cardinality(Reads(reg)) <= 1
    /\ Cardinality(Writes(reg)) <= 1
    /\ \A i \in Writes(reg) :
          /\ i - 1 \in Reads(reg)
          /\ log[i].val = Or32(log[i - 1].val, bits)

(* C18: nu_m032_init_isp writes to the clock-gate register the value it has
   just read from it with bit 2 set, and to ISPCON the value it has just read
   from it with bits 6 and 0 and the caller's bits set; it reads and writes
   each once, the clock-gate register before ISPCON, both after the three keys
   of the unlock sequence, and writes no other register. *)
InitReadModifyWrite ==
    logOf = "init_isp" =>
        /\ ReadModifyWrite(W(\h4000, \h0204), U32(4))
        /\ ReadModifyWrite(W(\h4000, \hC000), Or32(U32(65), uExtraconf))
        /\ \A i \in Reads(W(\h4000, \h0204)) \cup Writes(W(\h4000, \h0204)) :
              /\ i > 3
              /\ \A k \in 1..3 : log[k].k = "W" /\ log[k].reg = W(\h4000, \h0100)
              /\ \A j \in Reads(W(\h4000, \hC000)) \cup Writes(W(\h4000, \hC000)) :
                    i < j
        /\ \A i \in 1..Len(log) :
              log[i].k = "W" =>
                 \/ i <= 3 /\ log[i].reg = W(\h4000, \h0100)
                 \/ i > 3 /\ log[i].reg \in {W(\h4000, \h0204), W(\h4000, \hC000)}
        /\ InitReturned =>
              /\ Cardinality(Reads(W(\h4000, \h0204))) = 1
              /\ Cardinality(Writes(W(\h4000, \h0204))) = 1
              /\ Cardinality(Reads(W(\h4000, \hC000))) = 1
              /\ Cardinality(Writes(W(\h4000, \hC000))) = 1

\* erase_ldrom tests the result of an initialization that read ISPCON with
\* the main-region bit set and wrote it back with the loader bit added
InitReadModifyWriteWitness ==
    /\ Running("erase_ldrom", "chk")
    /\ logOf = "init_isp"
    /\ Len(log) = 8
    /\ log[5].val = U32(48)
    /\ log[6] = Wr(W(\h4000, \h0204), U32(52))
    /\ log[7].val = U32(9)
    /\ log[8] = Wr(W(\h4000, \hC000), U32(105))

---------------------------------------------------------------------------
(* C19: during a call of nu_m032_flash_write the engine is neither unlocked
   nor initialized: nothing is written to the lock-control register or to
   the clock-gate register, and ISPCON is written only by nu_m032_fmc_cmd
   when it writes back the value it has just read with the fail flag (bit 6)
   set. *)
FlashWriteNeverInitializes ==
    Top = "flash_write" =>
        /\ nInits = 0
        /\ logOf \in {"flash_write", "fmc_cmd"}
        /\ Writes(W(\h4000, \h0100)) = {}
        /\ Writes(W(\h4000, \h0204)) = {}
        /\ \A i \in Writes(W(\h4000, \hC000)) :
              /\ i > 1
              /\ log[i - 1] = Rd(W(\h4000, \hC000), log[i].val)
              /\ HasBit(log[i].val, U32(64))
              /\ \E j \in Reads(W(\h4000, \hC010)) : j < i

\* flash_write has returned after two words, the second command having
\* cleared the fail flag
FlashWriteNeverInitializesWitness ==
    /\ Top = "flash_write"
    /\ AtDone
    /\ nCmds = 2
    /\ nInits = 0
    /\ Writes(W(\h4000, \hC000)) # {}

---------------------------------------------------------------------------
\* the read command that log is about has returned without a go bit read clear
ReadTimedOut == FmcReturned /\ cmd = U32(0) /\ ~Completed

\* a timed-out read ends with a poll of the trigger register, and in
\* read_configs the sentinel stays and decides the reports
TimedOutReadLeavesSentinel ==
    /\ ReadTimedOut =>
          /\ Len(log) > 0
          /\ log[Len(log)].k = "R" /\ log[Len(log)].reg = W(\h4000, \hC010)
          /\ HasBit(log[Len(log)].val, U32(1))
          /\ Reads(W(\h4000, \hC000)) = {} /\ Writes(W(\h4000, \hC000)) = {}
          /\ Reads(W(\h4000, \hC008)) = {}
    /\ (Top = "read_configs" /\ tmoFirst) =>
          /\ uRegValue[1] = W(\hABCD, \hABCD)
          /\ (AtDone /\ ret = 1) =>
                /\ out[1] = W(\hABCD, \hABCD)
                /\ out[4] = "Boot From APROM"
                /\ out[5] = "secure locked"

\* while a command runs and when it returns, the result variables change
\* only in the step that reads the ISP data register after the go bit was
\* read clear
ResultChangesOnlyOnFetch ==
    (FmcLog /\ logOf' = "fmc_cmd" /\ Len(log') >= Len(log)
       /\ <<uRegSample, uRegValue>>' # <<uRegSample, uRegValue>>) =>
        /\ Completed
        /\ Len(log') = Len(log) + 1
        /\ log'[Len(log')].k = "R" /\ log'[Len(log')].reg = W(\h4000, \hC008)

(* C20: a command with opcode read that exhausts its polling budget makes no
   register access after its last poll of the trigger register and leaves
   the variable its result goes to as it was; in read_configs, when the read
   of the first configuration word times out, the word held stays
   0xABCDABCD, and the reports are those of that value: boot from main
   (bit 7 set) and locked (bit 1 clear). *)
TimedOutReadLeavesResult ==
    /\ []TimedOutReadLeavesSentinel
    /\ [][ResultChangesOnlyOnFetch]_vars

\* read_configs has returned, its first read having timed out, with the
\* reports of the sentinel
TimedOutReadWitness ==
    /\ Top = "read_configs"
    /\ AtDone
    /\ tmoFirst
    /\ uRegValue[1] = W(\hABCD, \hABCD)
    /\ out[4] = "Boot From APROM"
    /\ out[5] = "secure locked"

---------------------------------------------------------------------------
\* the commands that cover a length of len bytes, unit bytes each
CeilUnits(len, unit) == (Nat32(len) + unit - 1) \div unit

\* f was called with a length above zero that is not a multiple of unit: the
\* call does not return; the remaining length is never zero, and past the
\* last unit of the length it is 2^32 + L - unit * n after n commands; the
\* commands go on, one unit further each, at or past the end of the length
UnalignedLengthWraps(f, unit) ==
    (Top = f /\ Nat32(a_len) % unit # 0) =>
        /\ ~AtDone
        /\ Running(f, "loop") =>
              /\ szSize # <<0, 0>>
              /\ nCmds < CeilUnits(a_len, unit) =>
                    szSize = <<0, Nat32(a_len) - unit * nCmds>>
              /\ nCmds >= CeilUnits(a_len, unit) =>
                    szSize = <<65535, 65536 + Nat32(a_len) - unit * nCmds>>
        /\ (FmcLog /\ CmdIndex >= CeilUnits(a_len, unit)) =>
              /\ addr = Add32(a_addr, U32(unit * CmdIndex))
              /\ ~Less32(addr, Add32(a_addr, a_len))

(* C21: nu_m032_flash_erase called with a length L > 0 that is not a multiple
   of 512, and nu_m032_flash_write called with one that is not a multiple of
   4, do not stop after ceil(L/512), or ceil(L/4), commands: the unsigned
   remaining length wraps around below zero without being zero, and the
   loop goes on issuing commands at addresses past the address of the call
   plus L. *)
LengthPreconditionUnchecked ==
    /\ UnalignedLengthWraps("flash_erase", 512)
    /\ UnalignedLengthWraps("flash_write", 4)

\* flash_write, called with length 6, has issued its third command, at the
\* address of the call plus 8, the remaining length being 0xFFFFFFFE
LengthPreconditionWitness ==
    /\ Top = "flash_write"
    /\ a_len = U32(6)
    /\ Issued
    /\ nCmds = 3
    /\ addr = Add32(a_addr, U32(8))
    /\ szSize = W(\hFFFF, \hFFFE)

\* flash_erase, called with length 4, has issued its second command, one page
\* past the address of the call
LengthPreconditionEraseReached ==
    /\ Top = "flash_erase"
    /\ a_len = U32(4)
    /\ Issued
    /\ nCmds = 2
    /\ addr = Add32(a_addr, U32(512))
    /\ szSize = W(\hFFFF, \hFE04)

====
